---- MODULE Spec2Model ----
(***************************************************************************)
(* A model of the snapshot engine of plakar: the virtual filesystem index  *)
(* (package vfs), the stream encryption and the passphrase secret (package *)
(* encryption), and the S3 and null storage backends.                      *)
(*                                                                         *)
(* A Go string is a sequence of one-character strings, so that Split, Join *)
(* and Clean work on it as the library functions do.  A specification per  *)
(* component keeps the other components' variables at their initial value. *)
(***************************************************************************)
EXTENDS Integers, Sequences, FiniteSets, TLC

VARIABLES
    fs,         \* the vfs.Filesystem under construction
    built,      \* history: cleaned pathname -> the file info of its last buildTree
    nBuilt,     \* history: how many buildTree calls were made for each cleaned pathname
    last,       \* history: the last call made: "new" before the first one
    nLoads,     \* history: how often the index went through Serialize / NewFilesystemFromBytes
    calls,      \* number of top-level calls made so far
    procs,      \* the concurrent buildTree calls: one record per goroutine
    stream,     \* one EncryptStream / DecryptStream run: both goroutines and the caller
    kdf,        \* one BuildSecretFromPassphrase / DeriveSecret run
    store,      \* the storage backends: the object store behind S3, and the callers' view
    query,      \* one Lookup or LookupChildren call on the index, and what it returned
    hdr         \* the header package: the headers at hand and the last call on them

vars == <<fs, built, nBuilt, last, nLoads, calls, procs, stream, kdf, store, query, hdr>>

\* the variables of the index, and those of the other components
indexVars == <<fs, built, nBuilt, last, nLoads, calls, procs>>
notIndexVars == <<stream, kdf, store, query, hdr>>

-----------------------------------------------------------------------------
(* Bounds of the model. *)

\* calls made on one Filesystem in a behaviour
MaxCalls == 3

\* goroutines that run buildTree at the same time
NBuilders == 2

\* the longest plaintext given to EncryptStream
MaxPlain == 3

\* chunkSize, 1024 in the source: scaled down so that a short plaintext
\* makes several chunks
chunkSize == 2

\* gcm.Overhead(), gcm.NonceSize() and the size of the subkey (16, 12 and 32
\* bytes in the source), scaled down alike
Overhead == 1
NonceSize == 1
SubkeySize == 1

-----------------------------------------------------------------------------
(* Go strings and maps. *)

\* the value of a component's variable in the specifications of the others
NoStream == [pc |-> "none"]
NoKdf == [pc |-> "none"]
NoStore == [pc |-> "none"]
NoQuery == [pc |-> "none"]
NoHdr == [pc |-> "none"]

EmptyMap == [x \in {} |-> 0]

Put(m, k, v) == [x \in (DOMAIN m) \cup {k} |-> IF x = k THEN v ELSE m[x]]

\* the os path separator of the platform
Separator == "/"

\* strings.Split(s, "/")
RECURSIVE SplitAcc(_, _, _)
SplitAcc(s, cur, acc) ==
    IF s = <<>> THEN Append(acc, cur)
    ELSE IF Head(s) = "/" THEN SplitAcc(Tail(s), <<>>, Append(acc, cur))
    ELSE SplitAcc(Tail(s), Append(cur, Head(s)), acc)

Split(s) == SplitAcc(s, <<>>, <<>>)

\* strings.Join(atoms, "/")
RECURSIVE Join(_)
Join(atoms) ==
    IF atoms = <<>> THEN <<>>
    ELSE IF Len(atoms) = 1 THEN atoms[1]
    ELSE atoms[1] \o <<"/">> \o Join(Tail(atoms))

\* the element loop of filepath.Clean: drops empty and "." elements and
\* resolves ".." against the element before it
RECURSIVE CleanAtoms(_, _, _)
CleanAtoms(atoms, rooted, out) ==
    IF atoms = <<>> THEN out
    ELSE LET a == Head(atoms)
             rest == Tail(atoms)
         IN IF a = <<>> \/ a = <<".">> THEN CleanAtoms(rest, rooted, out)
            ELSE IF a = <<".", ".">>
                 THEN IF out # <<>> /\ out[Len(out)] # <<".", ".">>
                      THEN CleanAtoms(rest, rooted, SubSeq(out, 1, Len(out) - 1))
                      ELSE IF rooted THEN CleanAtoms(rest, rooted, out)
                      ELSE CleanAtoms(rest, rooted, Append(out, a))
                 ELSE CleanAtoms(rest, rooted, Append(out, a))

\* filepath.Clean(path)
Clean(path) ==
    IF path = <<>> THEN <<".">>
    ELSE LET rooted == path[1] = Separator
             out == CleanAtoms(Split(path), rooted, <<>>)
         IN IF rooted THEN <<"/">> \o Join(out)
            ELSE IF out = <<>> THEN <<".">> ELSE Join(out)

\* filepath.ToSlash(path)
ToSlash(path) == [i \in DOMAIN path |-> IF path[i] = Separator THEN "/" ELSE path[i]]

\* the last element of a cleaned pathname (os.FileInfo.Name)
BaseName(path) == LET atoms == Split(path) IN atoms[Len(atoms)]

-----------------------------------------------------------------------------
(* vfs.FileInfo, FilesystemNode and Filesystem. *)

\* a FileInfo: Name, Dev, Ino, Mode and Size
FileInfo(name, dev, ino, mode, size) ==
    [name |-> name, dev |-> dev, ino |-> ino, mode |-> mode, size |-> size]

\* the zero FileInfo, which a Go map returns for a missing key: its mode has
\* no type bit set, so IsRegular() is true of it and IsDir() is false
ZeroFileInfo == FileInfo(<<>>, 0, 0, "reg", 0)

IsDir(fi) == fi.mode = "dir"

IsRegular(fi) == fi.mode = "reg"

IsSymlink(fi) == fi.mode = "symlink"

\* the Inode of a node that buildTree has not set: the empty string
NoInode == <<>>

\* fmt.Sprintf("%d,%d", fileinfo.Dev(), fileinfo.Ino())
InodeKey(fi) == <<fi.dev, fi.ino>>

\* &FilesystemNode{Children: make(map[string]*FilesystemNode)}
NewNode == [Inode |-> NoInode, Children |-> EmptyMap]

\* nodes live in an arena; filesystem.Root is its first node
Root == 1

\* a failed Lookup
NotFound == 0

NewFilesystem ==
    [nodes |-> <<NewNode>>,
     Inodes |-> EmptyMap,
     pathnameID |-> 0,
     Pathnames |-> EmptyMap,
     pathnamesInverse |-> EmptyMap,
     scannedDirectories |-> <<>>,
     statInfo |-> EmptyMap,
     Symlinks |-> EmptyMap,
     nFiles |-> 0,
     nDirectories |-> 0,
     totalSize |-> 0]

\* filesystem.Inodes[key], the zero FileInfo when the key is missing
InodeRecord(f, key) == IF key \in DOMAIN f.Inodes THEN f.Inodes[key] ELSE ZeroFileInfo

\* addInode storing the record and adding its size whether or not the key is
\* already there
addInodeLastWins(f, fileinfo) ==
    [f EXCEPT !.Inodes = Put(@, InodeKey(fileinfo), fileinfo),
              !.totalSize = @ + fileinfo.size]

addInode(f, fileinfo) ==
    LET key == InodeKey(fileinfo)
    IN IF key \notin DOMAIN f.Inodes
       THEN [f EXCEPT !.Inodes = Put(@, key, fileinfo),
                      !.totalSize = @ + fileinfo.size]
       ELSE f

\* the value addPathname returns: pathnameId of the map read, which is the
\* zero value when the pathname was not there
addPathnameResult(f, pathname) ==
    IF pathname \in DOMAIN f.Pathnames THEN f.Pathnames[pathname] ELSE 0

addPathname(f, pathname) ==
    IF pathname \notin DOMAIN f.Pathnames
    THEN [f EXCEPT !.Pathnames = Put(@, pathname, f.pathnameID),
                   !.pathnamesInverse = Put(@, f.pathnameID, pathname),
                   !.pathnameID = @ + 1]
    ELSE f

\* GetPathnameID: a missing pathname reads as the zero value
GetPathnameID(f, pathname) ==
    IF pathname \in DOMAIN f.Pathnames THEN f.Pathnames[pathname] ELSE 0

\* GetPathname: a missing id reads as the empty string
GetPathname(f, id) ==
    IF id \in DOMAIN f.pathnamesInverse THEN f.pathnamesInverse[id] ELSE <<>>

\* tmp, exists := p.Children[atom] (NotFound when it does not exist)
ChildOf(nodes, p, atom) ==
    IF atom \in DOMAIN nodes[p].Children THEN nodes[p].Children[atom] ELSE NotFound

\* p.Children[atom] = &FilesystemNode{...}: the new node is the last of the arena
CreateChild(nodes, p, atom) ==
    Append([nodes EXCEPT ![p].Children = Put(@, atom, Len(nodes) + 1)], NewNode)

\* the atoms buildTree and Lookup descend by
AtomsOf(pathname) == IF pathname = <<"/">> THEN <<>> ELSE Tail(Split(pathname))

\* the descent of buildTree made by one goroutine alone
RECURSIVE MakePath(_, _, _)
MakePath(nodes, p, atoms) ==
    IF atoms = <<>> THEN [nodes |-> nodes, p |-> p]
    ELSE LET tmp == ChildOf(nodes, p, Head(atoms))
         IN IF tmp = NotFound
            THEN MakePath(CreateChild(nodes, p, Head(atoms)), Len(nodes) + 1, Tail(atoms))
            ELSE MakePath(nodes, tmp, Tail(atoms))

SetInode(nodes, p, inodeKey) == [nodes EXCEPT ![p].Inode = inodeKey]

\* the counters buildTree ends with
CountNode(f, fileinfo) ==
    IF IsRegular(fileinfo) THEN [f EXCEPT !.nFiles = @ + 1]
    ELSE IF IsDir(fileinfo) THEN [f EXCEPT !.nDirectories = @ + 1]
    ELSE f

\* the pathname buildTree works with
BuildPath(pathname) == ToSlash(Clean(pathname))

buildTree(f, pathname, fileinfo) ==
    LET f1 == addInode(f, fileinfo)
        path == BuildPath(pathname)
        f2 == addPathname(f1, path)
        r == MakePath(f2.nodes, Root, AtomsOf(path))
        f3 == [f2 EXCEPT !.nodes = SetInode(r.nodes, r.p, InodeKey(fileinfo)),
                         !.statInfo = Put(@, path, fileinfo)]
    IN CountNode(f3, fileinfo)

\* the descent of Lookup from a node
RECURSIVE Descend(_, _, _)
Descend(nodes, p, atoms) ==
    IF atoms = <<>> THEN p
    ELSE LET tmp == ChildOf(nodes, p, Head(atoms))
         IN IF tmp = NotFound THEN NotFound ELSE Descend(nodes, tmp, Tail(atoms))

\* the pathname the lookups work with
LookupPath(pathname) ==
    LET p == ToSlash(Clean(pathname)) IN IF p = <<".">> THEN <<"/">> ELSE p

\* Lookup: the node's place in the arena, NotFound for os.ErrNotExist
Lookup(f, pathname) ==
    LET path == LookupPath(pathname)
    IN IF path = <<"/">> THEN Root ELSE Descend(f.nodes, Root, Tail(Split(path)))

NFiles(f) == f.nFiles

NDirectories(f) == f.nDirectories

-----------------------------------------------------------------------------
(* Serialize, NewFilesystemFromBytes and reindex. *)

\* a set as a sequence, in the order a Go map iteration happens to take
InSomeOrder(S) ==
    CHOOSE s \in [1..Cardinality(S) -> S] : {s[i] : i \in DOMAIN s} = S

\* msgpack.Marshal(filesystem): the exported fields and nothing else
Serialize(f) ==
    [Root |-> f.nodes, Inodes |-> f.Inodes, Pathnames |-> f.Pathnames,
     Symlinks |-> f.Symlinks]

\* msgpack.Unmarshal into a zero Filesystem: the unexported fields stay zero
Unmarshal(serialized) ==
    [NewFilesystem EXCEPT !.nodes = serialized.Root,
                          !.Inodes = serialized.Inodes,
                          !.Pathnames = serialized.Pathnames,
                          !.Symlinks = serialized.Symlinks]

RECURSIVE reindexWalk(_, _)
RECURSIVE reindexChildren(_, _, _, _)

\* the loop of _reindex over node.Children
reindexChildren(f, pathname, node, names) ==
    IF names = <<>> THEN f
    ELSE LET name == Head(names)
             nodeInode == InodeRecord(f, f.nodes[f.nodes[node].Children[name]].Inode)
             child == Clean(pathname \o <<"/">> \o name)
             f1 == IF IsDir(nodeInode)
                   THEN reindexWalk(f, child)
                   ELSE [f EXCEPT !.statInfo = Put(@, child, nodeInode)]
         IN reindexChildren(f1, pathname, node, Tail(names))

\* _reindex(pathname)
reindexWalk(f, pathname) ==
    LET node == Lookup(f, pathname)
    IN IF node = NotFound THEN f
       ELSE LET pathnameInode == InodeRecord(f, f.nodes[node].Inode)
                f1 == [f EXCEPT !.statInfo = Put(@, pathname, pathnameInode),
                                !.totalSize = @ + pathnameInode.size]
            IN reindexChildren(f1, pathname, node,
                               InSomeOrder(DOMAIN f.nodes[node].Children))

\* the maps the loop of reindex over Pathnames can leave in pathnamesInverse:
\* when two pathnames carry one id, the one iterated last stays
InverseMaps(pathnames) ==
    LET ids == {pathnames[p] : p \in DOMAIN pathnames}
    IN {inv \in [ids -> DOMAIN pathnames] : \A id \in ids : pathnames[inv[id]] = id}

\* reindex, leaving inverse in pathnamesInverse
reindex(f, inverse) ==
    reindexWalk([f EXCEPT !.pathnamesInverse = inverse, !.statInfo = EmptyMap], <<"/">>)

NewFilesystemFromBytes(serialized, inverse) == reindex(Unmarshal(serialized), inverse)

-----------------------------------------------------------------------------
(* The files that Scan finds on the machine. *)

\* the absolute pathname made of atoms
Abs(atoms) == <<"/">> \o Join(atoms)

\* lstat of every file of the machine: /a/f and /a/g are hard links of one
\* file, /b/l is a symbolic link
World ==
    LET at(atoms, dev, ino, mode, size) ==
            <<Abs(atoms), FileInfo(BaseName(Abs(atoms)), dev, ino, mode, size)>>
        files == {at(<<>>, 1, 1, "dir", 0),
                  at(<<<<"a">>>>, 1, 2, "dir", 0),
                  at(<<<<"a">>, <<"f">>>>, 1, 3, "reg", 1),
                  at(<<<<"a">>, <<"g">>>>, 1, 3, "reg", 1),
                  at(<<<<"b">>>>, 1, 4, "dir", 0),
                  at(<<<<"b">>, <<"l">>>>, 1, 5, "symlink", 0)}
    IN [p \in {e[1] : e \in files} |-> (CHOOSE e \in files : e[1] = p)[2]]

\* strings.HasPrefix(s, prefix)
HasPrefix(s, prefix) == Len(prefix) <= Len(s) /\ SubSeq(s, 1, Len(prefix)) = prefix

\* what every pathname below a cleaned directory starts with
Below(directory) == IF directory = <<"/">> THEN directory ELSE directory \o <<"/">>

\* the pathnames cwalk.Walk(directory) visits: the directory and all below it
Visited(directory) ==
    {p \in DOMAIN World : p = directory \/ HasPrefix(p, Below(directory))}

\* the orders in which the walk can reach the visited files: a directory
\* before the files below it
WalkOrders(directory) ==
    LET V == Visited(directory)
    IN {s \in [1..Cardinality(V) -> V] :
            /\ {s[i] : i \in DOMAIN s} = V
            /\ \A i, j \in DOMAIN s : (s[i] # s[j] /\ HasPrefix(s[j], s[i])) => i < j}

\* the path cwalk hands to the callback: relative to the directory
Relative(directory, p) ==
    IF p = directory THEN <<>> ELSE SubSeq(p, Len(Below(directory)) + 1, Len(p))

\* the ancestors Scan builds before it walks: the deepest first; the loop
\* stops at the first one os.Stat fails on
RECURSIVE ScanAncestors(_, _)
ScanAncestors(atoms, i) ==
    IF i = 0 THEN <<>>
    ELSE LET path == Clean(<<"/">> \o Join(SubSeq(atoms, 1, i)))
         IN IF path \notin DOMAIN World THEN <<>>
            ELSE <<[pathname |-> path, fileinfo |-> World[path], symlink |-> FALSE]>>
                 \o ScanAncestors(atoms, i - 1)

\* whether every os.Stat of the ancestor loop succeeds
RECURSIVE AncestorsExist(_, _)
AncestorsExist(atoms, i) ==
    i = 0 \/ (/\ Clean(<<"/">> \o Join(SubSeq(atoms, 1, i))) \in DOMAIN World
              /\ AncestorsExist(atoms, i - 1))

\* the callback of the walk on the files of order, as the buildTree calls
\* and statInfo writes it makes
RECURSIVE ScanWalk(_, _, _, _)
ScanWalk(directory, skip, order, readlinkOk) ==
    IF order = <<>> THEN <<>>
    ELSE LET p == Head(order)
             path == Relative(directory, p)
             pathname == directory \o <<"/">> \o path
             rest == ScanWalk(directory, skip, Tail(order), readlinkOk)
         IN IF \E skipPath \in skip : HasPrefix(p, skipPath) THEN rest
            ELSE <<[pathname |-> pathname, fileinfo |-> World[p],
                    symlink |-> IsSymlink(World[p]) /\ readlinkOk]>> \o rest

\* the buildTree calls of Scan(directory, skip), none when the directory was
\* scanned before
ScanSteps(f, directory, skip, order, readlinkOk) ==
    LET dir == Clean(directory)
        atoms == Split(dir)
    IN IF \E i \in DOMAIN f.scannedDirectories : f.scannedDirectories[i] = dir
       THEN <<>>
       ELSE ScanAncestors(atoms, Len(atoms) - 1)
            \o (IF AncestorsExist(atoms, Len(atoms) - 1)
                THEN ScanWalk(dir, skip, order, readlinkOk) ELSE <<>>)

\* one callback: buildTree, and for a symbolic link the statInfo and
\* Symlinks entries under the pathname as the callback formed it
ScanStep(f, step) ==
    LET f1 == buildTree(f, step.pathname, step.fileinfo)
    IN IF step.symlink
       THEN [f1 EXCEPT !.statInfo = Put(@, step.pathname, step.fileinfo),
                       !.Symlinks = Put(@, step.pathname, <<"t">>)]
       ELSE f1

RECURSIVE ScanFold(_, _)
ScanFold(f, steps) ==
    IF steps = <<>> THEN f ELSE ScanFold(ScanStep(f, Head(steps)), Tail(steps))

Scan(f, directory, skip, order, readlinkOk) ==
    LET dir == Clean(directory)
        scanned == \E i \in DOMAIN f.scannedDirectories : f.scannedDirectories[i] = dir
        f1 == IF scanned THEN f
              ELSE [f EXCEPT !.scannedDirectories = Append(@, dir)]
    IN ScanFold(f1, ScanSteps(f, directory, skip, order, readlinkOk))

-----------------------------------------------------------------------------
(* The calls made on one Filesystem, one after the other. *)

\* the pathnames handed to buildTree and addPathname
BuildPaths ==
    {<<"/">>, Abs(<<<<"a">>>>), Abs(<<<<"a">>, <<"b">>>>), Abs(<<<<"c">>>>),
     <<"/", "a", "/">>}

\* the file infos handed to buildTree: the second file is the first one
\* after it grew
BuildInfos ==
    {FileInfo(<<"d">>, 1, 1, "dir", 0),
     FileInfo(<<"e">>, 1, 2, "dir", 0),
     FileInfo(<<"f">>, 1, 3, "reg", 1),
     FileInfo(<<"f">>, 1, 3, "reg", 2),
     FileInfo(<<"l">>, 1, 5, "symlink", 0)}

\* the directories handed to Scan
ScanDirectories ==
    {Abs(<<<<"a">>>>), Abs(<<<<"b">>>>), <<"/", "a", "/">>, Abs(<<<<"x">>, <<"y">>>>)}

\* the skip lists handed to Scan
ScanSkips == {{}, {Abs(<<<<"a">>, <<"g">>>>)}}

\* the history after the buildTree calls of steps
RECURSIVE BuiltAfter(_, _)
BuiltAfter(b, steps) ==
    IF steps = <<>> THEN b
    ELSE BuiltAfter(Put(b, BuildPath(Head(steps).pathname), Head(steps).fileinfo),
                    Tail(steps))

RECURSIVE NBuiltAfter(_, _)
NBuiltAfter(n, steps) ==
    IF steps = <<>> THEN n
    ELSE LET p == BuildPath(Head(steps).pathname)
         IN NBuiltAfter(Put(n, p, (IF p \in DOMAIN n THEN n[p] ELSE 0) + 1), Tail(steps))

InitVFS ==
    /\ fs = NewFilesystem
    /\ built = EmptyMap
    /\ nBuilt = EmptyMap
    /\ last = "new"
    /\ nLoads = 0
    /\ calls = 0

BuildTreeCall ==
    /\ calls < MaxCalls
    /\ \E pathname \in BuildPaths, fileinfo \in BuildInfos :
          LET steps == <<[pathname |-> pathname, fileinfo |-> fileinfo]>>
          IN /\ fs' = buildTree(fs, pathname, fileinfo)
             /\ built' = BuiltAfter(built, steps)
             /\ nBuilt' = NBuiltAfter(nBuilt, steps)
    /\ last' = "buildTree"
    /\ nLoads' = nLoads
    /\ calls' = calls + 1
    /\ UNCHANGED <<procs, notIndexVars>>

AddPathnameCall ==
    /\ calls < MaxCalls
    /\ \E pathname \in BuildPaths : fs' = addPathname(fs, pathname)
    /\ last' = "addPathname"
    /\ nLoads' = nLoads
    /\ calls' = calls + 1
    /\ UNCHANGED <<built, nBuilt, procs, notIndexVars>>

ScanCall ==
    /\ calls < MaxCalls
    /\ \E directory \in ScanDirectories, skip \in ScanSkips, readlinkOk \in BOOLEAN :
          \E order \in WalkOrders(Clean(directory)) :
             LET steps == ScanSteps(fs, directory, skip, order, readlinkOk)
             IN /\ fs' = Scan(fs, directory, skip, order, readlinkOk)
                /\ built' = BuiltAfter(built, steps)
                /\ nBuilt' = NBuiltAfter(nBuilt, steps)
    /\ last' = "Scan"
    /\ nLoads' = nLoads
    /\ calls' = calls + 1
    /\ UNCHANGED <<procs, notIndexVars>>

LoadCall ==
    /\ calls < MaxCalls
    /\ \E inverse \in InverseMaps(fs.Pathnames) :
          fs' = NewFilesystemFromBytes(Serialize(fs), inverse)
    /\ last' = "load"
    /\ nLoads' = nLoads + 1
    /\ calls' = calls + 1
    /\ UNCHANGED <<built, nBuilt, procs, notIndexVars>>

NextVFS == BuildTreeCall \/ AddPathnameCall \/ ScanCall \/ LoadCall

InitSeq ==
    /\ InitVFS
    /\ procs = <<>>
    /\ stream = NoStream
    /\ kdf = NoKdf
    /\ store = NoStore
    /\ query = NoQuery
    /\ hdr = NoHdr

SpecVFS == InitSeq /\ [][NextVFS]_vars

-----------------------------------------------------------------------------
(* The claims about the index built by one caller. *)

\* the tree node of a built path, NotFound when Lookup fails
NodeOf(p) == Lookup(fs, p)

\* the record statInfo must hold for a built path: the inode record of its node
StatIsInodeRecord(p) ==
    /\ NodeOf(p) # NotFound
    /\ p \in DOMAIN fs.statInfo
    /\ fs.statInfo[p] = InodeRecord(fs, fs.nodes[NodeOf(p)].Inode)

\* C2: after any sequence of buildTree and Scan calls, every built path p has
\* statInfo[p] = Inodes[n.Inode] for the node n that Lookup(p) returns.
C2_StatInfoIsInodeRecord ==
    nLoads = 0 => \A p \in DOMAIN built : StatIsInodeRecord(p)

\* C3: once NewFilesystemFromBytes has loaded and reindexed the serialized
\* index, every path built before has a statInfo entry, equal to the inode
\* record of its node.
C3_ReindexRestoresStatInfo ==
    last = "load" => \A p \in DOMAIN built : StatIsInodeRecord(p)

\* C4: Pathnames maps distinct pathnames to distinct ids and pathnamesInverse
\* is exactly its inverse, so GetPathname(GetPathnameID(p)) = p.
C4_PathnamesBijection ==
    /\ \A p, q \in DOMAIN fs.Pathnames : p # q => fs.Pathnames[p] # fs.Pathnames[q]
    /\ DOMAIN fs.pathnamesInverse = {fs.Pathnames[p] : p \in DOMAIN fs.Pathnames}
    /\ \A p \in DOMAIN fs.Pathnames : GetPathname(fs, GetPathnameID(fs, p)) = p

\* C5: after any sequence of buildTree and Scan calls, NFiles() is the number
\* of distinct built paths that are regular files and NDirectories() the
\* number of distinct built paths that are directories.
C5_CountersCountBuiltPaths ==
    nLoads = 0 =>
        /\ NFiles(fs) = Cardinality({p \in DOMAIN built : IsRegular(built[p])})
        /\ NDirectories(fs) = Cardinality({p \in DOMAIN built : IsDir(built[p])})

-----------------------------------------------------------------------------
(* buildTree run by several goroutines on one Filesystem.  A step is what a  *)
(* goroutine does under one lock (or in one atomic add); between two steps   *)
(* the other goroutines may run.                                             *)

\* the pathnames the goroutines build
ConcPaths ==
    {Abs(<<<<"a">>>>), Abs(<<<<"a">>, <<"b">>>>), Abs(<<<<"a">>, <<"c">>>>),
     Abs(<<<<"d">>>>)}

\* the file infos the goroutines build
ConcInfos ==
    {FileInfo(<<"d">>, 1, 1, "dir", 0),
     FileInfo(<<"f">>, 1, 3, "reg", 1),
     FileInfo(<<"g">>, 1, 4, "reg", 2)}

\* a goroutine entering buildTree(pathname, fileinfo)
NewBuilder(pathname, fileinfo) ==
    [pathname |-> pathname, fileinfo |-> fileinfo, pc |-> "addInode",
     inodeKey |-> NoInode, path |-> <<>>, atoms |-> <<>>, p |-> Root]

\* where a goroutine goes on once it stands on node p with atoms left
AfterAtoms(atoms) == IF atoms = <<>> THEN "setInode" ELSE "read"

InitConc ==
    /\ fs = NewFilesystem
    /\ built = EmptyMap
    /\ nBuilt = EmptyMap
    /\ last = "new"
    /\ nLoads = 0
    /\ calls = 0
    /\ \E b \in [1..NBuilders -> ConcPaths \X ConcInfos] :
          /\ \A i, j \in 1..NBuilders : i # j => b[i][1] # b[j][1]
          /\ procs = [i \in 1..NBuilders |-> NewBuilder(b[i][1], b[i][2])]
    /\ stream = NoStream
    /\ kdf = NoKdf
    /\ store = NoStore
    /\ query = NoQuery
    /\ hdr = NoHdr

\* inodeKey := filesystem.addInode(*fileinfo)
BuilderAddInode(i) ==
    /\ procs[i].pc = "addInode"
    /\ fs' = addInode(fs, procs[i].fileinfo)
    /\ procs' = [procs EXCEPT ![i].inodeKey = InodeKey(procs[i].fileinfo),
                              ![i].pc = "addPathname"]
    /\ UNCHANGED <<built, nBuilt, last, nLoads, calls, notIndexVars>>

\* filesystem.addPathname(pathname), and the split of the pathname
BuilderAddPathname(i) ==
    /\ procs[i].pc = "addPathname"
    /\ LET path == BuildPath(procs[i].pathname)
       IN /\ fs' = addPathname(fs, path)
          /\ procs' = [procs EXCEPT ![i].path = path,
                                    ![i].atoms = AtomsOf(path),
                                    ![i].p = Root,
                                    ![i].pc = AfterAtoms(AtomsOf(path))]
    /\ UNCHANGED <<built, nBuilt, last, nLoads, calls, notIndexVars>>

\* tmp, exists := p.Children[atom], under p.muNode
BuilderRead(i) ==
    /\ procs[i].pc = "read"
    /\ LET tmp == ChildOf(fs.nodes, procs[i].p, Head(procs[i].atoms))
       IN procs' = IF tmp = NotFound
                   THEN [procs EXCEPT ![i].pc = "create"]
                   ELSE [procs EXCEPT ![i].p = tmp,
                                      ![i].atoms = Tail(@),
                                      ![i].pc = AfterAtoms(Tail(procs[i].atoms))]
    /\ UNCHANGED <<fs, built, nBuilt, last, nLoads, calls, notIndexVars>>

\* p.Children[atom] = &FilesystemNode{...}, under p.muNode taken again
BuilderCreate(i) ==
    /\ procs[i].pc = "create"
    /\ fs' = [fs EXCEPT !.nodes = CreateChild(@, procs[i].p, Head(procs[i].atoms))]
    /\ procs' = [procs EXCEPT ![i].p = Len(fs.nodes) + 1,
                              ![i].atoms = Tail(@),
                              ![i].pc = AfterAtoms(Tail(procs[i].atoms))]
    /\ UNCHANGED <<built, nBuilt, last, nLoads, calls, notIndexVars>>

\* p.Inode = inodeKey, under p.muNode
BuilderSetInode(i) ==
    /\ procs[i].pc = "setInode"
    /\ fs' = [fs EXCEPT !.nodes = SetInode(@, procs[i].p, procs[i].inodeKey)]
    /\ procs' = [procs EXCEPT ![i].pc = "setStat"]
    /\ UNCHANGED <<built, nBuilt, last, nLoads, calls, notIndexVars>>

\* filesystem.statInfo[pathname] = fileinfo, under muStat
BuilderSetStat(i) ==
    /\ procs[i].pc = "setStat"
    /\ fs' = [fs EXCEPT !.statInfo = Put(@, procs[i].path, procs[i].fileinfo)]
    /\ procs' = [procs EXCEPT ![i].pc = "count"]
    /\ UNCHANGED <<built, nBuilt, last, nLoads, calls, notIndexVars>>

\* atomic.AddUint64 on nFiles or nDirectories, and the return
BuilderCount(i) ==
    /\ procs[i].pc = "count"
    /\ fs' = CountNode(fs, procs[i].fileinfo)
    /\ procs' = [procs EXCEPT ![i].pc = "done"]
    /\ UNCHANGED <<built, nBuilt, last, nLoads, calls, notIndexVars>>

NextConc ==
    \/ \E i \in DOMAIN procs : BuilderAddInode(i)
    \/ \E i \in DOMAIN procs : BuilderAddPathname(i)
    \/ \E i \in DOMAIN procs : BuilderRead(i)
    \/ \E i \in DOMAIN procs : BuilderCreate(i)
    \/ \E i \in DOMAIN procs : BuilderSetInode(i)
    \/ \E i \in DOMAIN procs : BuilderSetStat(i)
    \/ \E i \in DOMAIN procs : BuilderCount(i)

SpecConc == InitConc /\ [][NextConc]_vars

\* every buildTree call has returned
AllReturned == \A i \in DOMAIN procs : procs[i].pc = "done"

\* C1: once concurrent buildTree calls for different paths have all returned,
\* Lookup resolves every built path to a node whose Inode is the key of the
\* file info built for it.
C1_ConcurrentBuildersKeepEveryPath ==
    AllReturned =>
        \A i \in DOMAIN procs :
            /\ Lookup(fs, procs[i].pathname) # NotFound
            /\ fs.nodes[Lookup(fs, procs[i].pathname)].Inode = InodeKey(procs[i].fileinfo)

-----------------------------------------------------------------------------
(* AES-GCM, as far as the streams depend on it.  A sealed message is its     *)
(* plaintext enciphered byte by byte, each byte bound to key, nonce and      *)
(* position, followed by a tag of Overhead bytes over the whole plaintext:   *)
(* Open accepts nothing but the exact output of Seal under its key and nonce.*)

\* the bytes of a plaintext
Bytes == {0, 1}

\* a byte that no Seal produces
Corrupt == [corrupt |-> TRUE]

Min(a, b) == IF a < b THEN a ELSE b

\* gcm.Seal(nil, nonce, plaintext, nil) under key
Seal(key, nonce, plaintext) ==
    [i \in 1..Len(plaintext) |-> [k |-> key, n |-> nonce, i |-> i, b |-> plaintext[i]]]
    \o [j \in 1..Overhead |-> [k |-> key, n |-> nonce, tag |-> plaintext, j |-> j]]

\* gcm.Open(nil, nonce, ciphertext, nil) under key: the plaintext, or an error
Open(key, nonce, ciphertext) ==
    LET m == Len(ciphertext) - Overhead
        enciphered == m >= 0 /\ \A i \in 1..m : "b" \in DOMAIN ciphertext[i]
        plaintext == [i \in 1..m |-> ciphertext[i].b]
    IN IF enciphered /\ ciphertext = Seal(key, nonce, plaintext)
       THEN [err |-> FALSE, plaintext |-> plaintext]
       ELSE [err |-> TRUE, plaintext |-> <<>>]

\* n random bytes, drawn as the value r
RandomBytes(r, n) == [j \in 1..n |-> <<r, j>>]

\* the master keys, and what rand.Read can return for a subkey and a nonce
Keys == {"k1", "k2"}
Subkeys == {"s1"}
Nonces == {"n1", "n2"}

\* the plaintexts given to EncryptStream
RECURSIVE SeqsUpTo(_, _)
SeqsUpTo(S, n) ==
    IF n = 0 THEN {<<>>}
    ELSE SeqsUpTo(S, n - 1) \cup {Append(s, x) : s \in {t \in SeqsUpTo(S, n - 1) : Len(t) = n - 1}, x \in S}

Plaintexts == SeqsUpTo(Bytes, MaxPlain)

-----------------------------------------------------------------------------
(* EncryptStream and DecryptStream.  The goroutine of EncryptStream reads the *)
(* plaintext and writes sealed chunks to its pipe; DecryptStream reads them   *)
(* either straight from that pipe ("pipe": a read returns the bytes of one    *)
(* write) or from a reader over the stored ciphertext ("reader": a read       *)
(* returns any number of the bytes left, the last one possibly with io.EOF).  *)

\* the size of the buffer DecryptStream reads into
DecryptBuffer == chunkSize + Overhead

\* what EncryptStream writes before the first chunk
StreamHeader(key, subkey, subkeyNonce, dataNonce) ==
    subkeyNonce \o Seal(key, subkeyNonce, subkey) \o dataNonce

\* EncryptStream(key, r) up to the start of its goroutine, r holding plain
EncryptStream(key, plain, subkey, subkeyNonce, dataNonce, decKey, transport) ==
    [pc |-> "encrypt",
     key |-> key, plain |-> plain, src |-> plain,
     subkey |-> subkey, dataNonce |-> dataNonce,
     wire |-> StreamHeader(key, subkey, subkeyNonce, dataNonce),
     writes |-> <<NonceSize, SubkeySize + Overhead, NonceSize>>,
     tampered |-> FALSE,
     decKey |-> decKey, transport |-> transport,
     rpos |-> 0, dataGCM |-> <<>>,
     opened |-> 0, openFailed |-> FALSE,
     out |-> <<>>, result |-> "none"]

InitStream ==
    /\ \E key \in Keys, decKey \in Keys, plain \in Plaintexts, sk \in Subkeys,
          n1 \in Nonces, n2 \in Nonces, transport \in {"pipe", "reader"} :
          stream = EncryptStream(key, plain, RandomBytes(sk, SubkeySize),
                                 RandomBytes(n1, NonceSize), RandomBytes(n2, NonceSize),
                                 decKey, transport)
    /\ InitVFS
    /\ procs = <<>>
    /\ kdf = NoKdf
    /\ store = NoStore
    /\ query = NoQuery
    /\ hdr = NoHdr

\* the results r.Read(buf) can have on a reader with the bytes left to
\* deliver: n bytes, and io.EOF no earlier than with the last of them
Reads(left, buf) ==
    {rd \in [n : 0..Min(Len(left), buf), eof : BOOLEAN] :
        /\ rd.eof => rd.n = Len(left)
        /\ ~rd.eof => rd.n > 0}

\* one turn of the loop of EncryptStream whose read returns no error: the
\* bytes read are sealed and written to the pipe
EncryptChunk ==
    /\ stream.pc = "encrypt"
    /\ \E rd \in Reads(stream.src, chunkSize) :
          /\ ~rd.eof
          /\ stream' = [stream EXCEPT
                !.wire = @ \o Seal(stream.subkey, stream.dataNonce, SubSeq(stream.src, 1, rd.n)),
                !.writes = Append(@, rd.n + Overhead),
                !.src = SubSeq(@, rd.n + 1, Len(@))]
    /\ UNCHANGED <<indexVars, kdf, store, query, hdr>>

\* the turn whose read returns io.EOF: the loop breaks, whatever the read
\* returned with it, and the pipe is closed
EncryptClose ==
    /\ stream.pc = "encrypt"
    /\ \E rd \in Reads(stream.src, chunkSize) :
          /\ rd.eof
          /\ stream' = [stream EXCEPT !.pc = "stored", !.src = <<>>]
    /\ UNCHANGED <<indexVars, kdf, store, query, hdr>>

\* somebody alters one byte of the ciphertext before it is decrypted
Tamper ==
    /\ stream.pc = "stored"
    /\ ~stream.tampered
    /\ \E j \in 1..Len(stream.wire) :
          stream' = [stream EXCEPT !.wire[j] = Corrupt, !.tampered = TRUE]
    /\ UNCHANGED <<indexVars, kdf, store, query, hdr>>

\* DecryptStream(decKey, r) up to the start of its goroutine: the header is
\* read with io.ReadFull and the subkey opened
DecryptStream ==
    /\ stream.pc = "stored"
    /\ LET w == stream.wire
           subkeyNonce == SubSeq(w, 1, NonceSize)
           encSubkey == SubSeq(w, NonceSize + 1, NonceSize + Overhead + SubkeySize)
           header == NonceSize + Overhead + SubkeySize + NonceSize
           dataNonce == SubSeq(w, NonceSize + Overhead + SubkeySize + 1, header)
           subkey == Open(stream.decKey, subkeyNonce, encSubkey)
       IN stream' = IF Len(w) < header \/ subkey.err
                    THEN [stream EXCEPT !.pc = "done", !.result = "error",
                                        !.openFailed = subkey.err]
                    ELSE [stream EXCEPT !.pc = "decrypt", !.rpos = header,
                                        !.writes = SubSeq(@, 4, Len(@)),
                                        !.dataGCM = <<subkey.plaintext, dataNonce>>]
    /\ UNCHANGED <<indexVars, kdf, store, query, hdr>>

\* the results of r.Read(buf) in the goroutine of DecryptStream
DecryptReads ==
    LET left == SubSeq(stream.wire, stream.rpos + 1, Len(stream.wire))
    IN IF stream.transport = "pipe"
       THEN IF stream.writes = <<>> THEN {[n |-> 0, eof |-> TRUE]}
            ELSE {[n |-> Min(Head(stream.writes), DecryptBuffer), eof |-> FALSE]}
       ELSE Reads(left, DecryptBuffer)

\* the bytes a read of n bytes puts in the buffer
ReadBytes(n) == SubSeq(stream.wire, stream.rpos + 1, stream.rpos + n)

\* what is left of the pending writes of the pipe after a read of n bytes
AfterRead(writes, n) ==
    IF writes = <<>> THEN writes
    ELSE IF Head(writes) > n THEN <<Head(writes) - n>> \o Tail(writes)
    ELSE Tail(writes)

\* one turn of the loop of DecryptStream: the bytes read open, and the
\* plaintext is written to the pipe the caller reads from
DecryptChunk ==
    /\ stream.pc = "decrypt"
    /\ \E rd \in DecryptReads :
          LET chunk == Open(stream.dataGCM[1], stream.dataGCM[2], ReadBytes(rd.n))
          IN /\ ~rd.eof
             /\ ~chunk.err
             /\ stream' = [stream EXCEPT !.rpos = @ + rd.n,
                                         !.writes = AfterRead(@, rd.n),
                                         !.opened = @ + 1,
                                         !.out = @ \o chunk.plaintext]
    /\ UNCHANGED <<indexVars, kdf, store, query, hdr>>

\* the turn in which the bytes read do not open: pw.CloseWithError(err)
DecryptFail ==
    /\ stream.pc = "decrypt"
    /\ \E rd \in DecryptReads :
          /\ ~rd.eof
          /\ Open(stream.dataGCM[1], stream.dataGCM[2], ReadBytes(rd.n)).err
          /\ stream' = [stream EXCEPT !.pc = "done", !.result = "error",
                                      !.openFailed = TRUE]
    /\ UNCHANGED <<indexVars, kdf, store, query, hdr>>

\* the turn whose read returns io.EOF: the loop breaks, whatever the read
\* returned with it, and the caller reads end-of-stream
DecryptClose ==
    /\ stream.pc = "decrypt"
    /\ \E rd \in DecryptReads :
          /\ rd.eof
          /\ stream' = [stream EXCEPT !.pc = "done", !.result = "eof"]
    /\ UNCHANGED <<indexVars, kdf, store, query, hdr>>

NextStream ==
    \/ EncryptChunk
    \/ EncryptClose
    \/ Tamper
    \/ DecryptStream
    \/ DecryptChunk
    \/ DecryptFail
    \/ DecryptClose

SpecStream == InitStream /\ [][NextStream]_vars

\* C6: reading DecryptStream(key, EncryptStream(key, s)) to its end yields
\* exactly s and no error, however the readers deliver their bytes.
C6_StreamRoundTrip ==
    (stream.pc = "done" /\ ~stream.tampered /\ stream.decKey = stream.key) =>
        (stream.result = "eof" /\ stream.out = stream.plain)

\* C7: when opening any part of the stream fails, the caller receives an
\* error and no plaintext byte, not even of the chunks before the failure.
C7_NoPlaintextOnFailure ==
    stream.openFailed => (stream.result = "error" /\ stream.out = <<>>)

-----------------------------------------------------------------------------
(* The passphrase secret: BuildSecretFromPassphrase and DeriveSecret, with    *)
(* base64 computed character by character.                                    *)

\* the length of the salt in a secret
saltSize == 16

\* the length of the key scrypt.Key is asked for
keyLen == 32

\* the alphabet of base64.StdEncoding, and its padding character
encodeStd ==
    <<
      "A", "B", "C", "D", "E", "F", "G", "H", "I", "J", "K", "L", "M", "N", "O", "P",
      "Q", "R", "S", "T", "U", "V", "W", "X", "Y", "Z", "a", "b", "c", "d", "e", "f",
      "g", "h", "i", "j", "k", "l", "m", "n", "o", "p", "q", "r", "s", "t", "u", "v",
      "w", "x", "y", "z", "0", "1", "2", "3", "4", "5", "6", "7", "8", "9", "+", "/"
    >>
padChar == "="

\* 64 to the power k, for the four characters of a group
Pow64(k) == IF k = 0 THEN 1 ELSE IF k = 1 THEN 64 ELSE IF k = 2 THEN 4096 ELSE 262144

\* 256 to the power k, for the three bytes of a group
Pow256(k) == IF k = 0 THEN 1 ELSE IF k = 1 THEN 256 ELSE 65536

\* base64.StdEncoding.EncodeToString(src)
EncodeToString(src) ==
    LET n == Len(src)
        byte(i) == IF i <= n THEN src[i] ELSE 0
        val(g) == byte(3 * g + 1) * 65536 + byte(3 * g + 2) * 256 + byte(3 * g + 3)
    IN [i \in 1..(4 * ((n + 2) \div 3)) |->
            LET g == (i - 1) \div 4
                k == (i - 1) % 4
            IN IF 3 * g + k > n THEN padChar
               ELSE encodeStd[((val(g) \div Pow64(3 - k)) % 64) + 1]]

\* base64.StdEncoding.DecodeString(s): the bytes, or a CorruptInputError
DecodeString(s) ==
    LET n == Len(s)
        pads == IF n >= 2 /\ s[n] = padChar /\ s[n - 1] = padChar THEN 2
                ELSE IF n >= 1 /\ s[n] = padChar THEN 1 ELSE 0
        known(c) == \E x \in DOMAIN encodeStd : encodeStd[x] = c
        sextet(i) == IF i > n - pads THEN 0
                     ELSE (CHOOSE x \in DOMAIN encodeStd : encodeStd[x] = s[i]) - 1
        val(g) == sextet(4 * g + 1) * 262144 + sextet(4 * g + 2) * 4096
                  + sextet(4 * g + 3) * 64 + sextet(4 * g + 4)
    IN IF n % 4 # 0 \/ \E i \in 1..(n - pads) : ~known(s[i])
       THEN [err |-> TRUE, bytes |-> <<>>]
       ELSE [err |-> FALSE,
             bytes |-> [j \in 1..(3 * (n \div 4) - pads) |->
                            (val((j - 1) \div 3) \div Pow256(2 - ((j - 1) % 3))) % 256]]

RECURSIVE Sum(_)
Sum(s) == IF s = <<>> THEN 0 ELSE Head(s) + Sum(Tail(s))

\* scrypt.Key(passphrase, salt, 1<<15, 8, 1, n): some function of passphrase
\* and salt; two passphrases can have the same key
scryptKey(passphrase, salt, n) ==
    [j \in 1..n |-> (31 * Sum(passphrase) + 3 * Len(passphrase) + 7 * Sum(salt) + j) % 256]

\* BuildSecretFromPassphrase(passphrase), rand.Read having filled salt
BuildSecretFromPassphrase(passphrase, salt) ==
    EncodeToString(salt \o scryptKey(passphrase, salt, keyLen))

\* DeriveSecret without its comparison of the two keys
DeriveSecretUnchecked(passphrase, secret) ==
    LET decodedSecret == DecodeString(secret)
        salt == SubSeq(decodedSecret.bytes, 1, saltSize)
        dk == scryptKey(passphrase, salt, keyLen)
    IN IF decodedSecret.err THEN [err |-> "corrupt input", key |-> <<>>]
       ELSE IF Len(decodedSecret.bytes) < saltSize THEN [err |-> "panic", key |-> <<>>]
       ELSE [err |-> "nil", key |-> dk]

\* DeriveSecret(passphrase, secret): the key and a nil error, or an error
DeriveSecret(passphrase, secret) ==
    LET decodedSecret == DecodeString(secret)
        salt == SubSeq(decodedSecret.bytes, 1, saltSize)
        expectedKey == SubSeq(decodedSecret.bytes, saltSize + 1, Len(decodedSecret.bytes))
        dk == scryptKey(passphrase, salt, keyLen)
    IN IF decodedSecret.err THEN [err |-> "corrupt input", key |-> <<>>]
       ELSE IF Len(decodedSecret.bytes) < saltSize THEN [err |-> "panic", key |-> <<>>]
       ELSE IF dk # expectedKey THEN [err |-> "passphrase does not match", key |-> <<>>]
       ELSE [err |-> "nil", key |-> dk]

\* the passphrases, the empty one included
Passphrases == SeqsUpTo({1, 2}, 2)

\* what rand.Read can fill a salt with
Salts == {[j \in 1..saltSize |-> (16 * r + j) % 256] : r \in 0..3}

InitSecret ==
    /\ \E passphrase \in Passphrases, salt \in Salts :
          kdf = [pc |-> "build", passphrase |-> passphrase, salt |-> salt,
                 secret |-> <<>>, q |-> <<>>, result |-> [err |-> "none", key |-> <<>>]]
    /\ InitVFS
    /\ procs = <<>>
    /\ stream = NoStream
    /\ store = NoStore
    /\ query = NoQuery
    /\ hdr = NoHdr

\* s = BuildSecretFromPassphrase(p)
BuildSecretCall ==
    /\ kdf.pc = "build"
    /\ kdf' = [kdf EXCEPT !.pc = "built",
                          !.secret = BuildSecretFromPassphrase(kdf.passphrase, kdf.salt)]
    /\ UNCHANGED <<indexVars, stream, store, query, hdr>>

\* DeriveSecret(q, s), for any passphrase q
DeriveSecretCall ==
    /\ kdf.pc = "built"
    /\ \E q \in Passphrases :
          kdf' = [kdf EXCEPT !.pc = "derived", !.q = q,
                             !.result = DeriveSecret(q, kdf.secret)]
    /\ UNCHANGED <<indexVars, stream, store, query, hdr>>

NextSecret ==
    \/ BuildSecretCall
    \/ DeriveSecretCall

SpecSecret == InitSecret /\ [][NextSecret]_vars

\* C8: DeriveSecret(q, s) on s = BuildSecretFromPassphrase(p) returns the
\* 32-byte key stored in s after the 16-byte salt when the key derived from q
\* is that key (q = p, the empty passphrase included), and otherwise the
\* passphrase-mismatch error and no key.
C8_DeriveSecretVerifies ==
    kdf.pc = "derived" =>
        LET stored == scryptKey(kdf.passphrase, kdf.salt, keyLen)
            bytes == DecodeString(kdf.secret).bytes
        IN /\ Len(bytes) = saltSize + keyLen
           /\ SubSeq(bytes, 1, saltSize) = kdf.salt
           /\ SubSeq(bytes, saltSize + 1, saltSize + keyLen) = stored
           /\ IF scryptKey(kdf.q, kdf.salt, keyLen) = stored
              THEN kdf.result = [err |-> "nil", key |-> stored]
              ELSE kdf.result = [err |-> "passphrase does not match", key |-> <<>>]

\* the empty passphrase has been verified against its own secret, with the
\* 32-byte key as the result
C8_EmptyPassphraseVerified ==
    /\ kdf.pc = "derived"
    /\ kdf.passphrase = <<>>
    /\ kdf.q = <<>>
    /\ kdf.result.err = "nil"
    /\ Len(kdf.result.key) = keyLen

-----------------------------------------------------------------------------
(* The storage backends: the S3 backend over an object store, and the null    *)
(* backend.  The object store answers every request; a request that the       *)
(* network loses is not modelled.                                             *)

\* the characters of a string literal of the backend
ConfigKey == <<"C", "O", "N", "F", "I", "G">>
SnapshotPrefix == <<"S", "N", "A", "P", "S", "H", "O", "T", "/">>

hextable == <<"0", "1", "2", "3", "4", "5", "6", "7", "8", "9", "a", "b", "c", "d", "e", "f">>

\* the two hexadecimal digits of a byte
HexByte(b) == <<hextable[(b \div 16) + 1], hextable[(b % 16) + 1]>>

RECURSIVE HexBytes(_)
HexBytes(bytes) == IF bytes = <<>> THEN <<>> ELSE HexByte(Head(bytes)) \o HexBytes(Tail(bytes))

\* uuid.UUID.String(): xxxxxxxx-xxxx-xxxx-xxxx-xxxxxxxxxxxx
UUIDString(u) ==
    HexBytes(SubSeq(u, 1, 4)) \o <<"-">> \o HexBytes(SubSeq(u, 5, 6)) \o <<"-">>
    \o HexBytes(SubSeq(u, 7, 8)) \o <<"-">> \o HexBytes(SubSeq(u, 9, 10)) \o <<"-">>
    \o HexBytes(SubSeq(u, 11, 16))

\* the value of a hexadecimal digit, 16 for any other character
HexValue(c) ==
    IF \E x \in DOMAIN hextable : hextable[x] = c
    THEN (CHOOSE x \in DOMAIN hextable : hextable[x] = c) - 1
    ELSE 16

\* uuid.MustParse(s) of the 36-character form: the UUID, or a panic
MustParse(s) ==
    LET digits == SelectSeq(s, LAMBDA c : c # "-")
        dashes == {i \in DOMAIN s : s[i] = "-"}
    IN IF Len(s) = 36 /\ dashes = {9, 14, 19, 24}
          /\ \A i \in DOMAIN digits : HexValue(digits[i]) < 16
       THEN [j \in 1..16 |-> 16 * HexValue(digits[2 * j - 1]) + HexValue(digits[2 * j])]
       ELSE "panic"

\* fmt.Sprintf("SNAPSHOT/%s/%s", indexID.String()[0:2], indexID.String())
SnapshotKey(indexID) ==
    SnapshotPrefix \o SubSeq(UUIDString(indexID), 1, 2) \o <<"/">> \o UUIDString(indexID)

\* msgpack.Marshal(config): a map from the name of each field to its value;
\* a time.Time goes as the timestamp extension, which holds the instant only
Marshal(config) ==
    [msgpack |-> [config EXCEPT !.CreationTime = [type |-> "ext", id |-> -1, v |-> @.instant]]]

\* msgpack.Unmarshal(configBytes, &config): the timestamp extension is
\* decoded by time.Unix, in the Local location
UnmarshalConfig(configBytes) ==
    [configBytes.msgpack EXCEPT !.CreationTime = [instant |-> @.v, loc |-> "Local"]]

\* the snapshot identifiers: the first two begin with the same byte
UUIDs ==
    {[j \in 1..16 |-> IF j = 1 THEN 171 ELSE (29 * j) % 256],
     [j \in 1..16 |-> IF j = 1 THEN 171 ELSE (31 * j + 5) % 256],
     [j \in 1..16 |-> (37 * j + 11) % 256]}

\* the headers that get stored, and the configurations given to Create
\* (Version holds storage.VERSION, a constant of the storage package)
Headers == {"h1", "h2"}
Configs ==
    {[Version |-> "VERSION", RepositoryID |-> [j \in 1..16 |-> (13 * j + 1) % 256],
      CreationTime |-> [instant |-> 1, loc |-> "Local"],
      Hashing |-> "sha256", Chunking |-> "fastcdc",
      ChunkingMin |-> 512 * 1024, ChunkingNormal |-> 1024 * 1024, ChunkingMax |-> 8192 * 1024],
     [Version |-> "VERSION", RepositoryID |-> [j \in 1..16 |-> (17 * j + 2) % 256],
      CreationTime |-> [instant |-> 2, loc |-> "UTC"],
      Hashing |-> "sha256", Chunking |-> "fastcdc",
      ChunkingMin |-> 512 * 1024, ChunkingNormal |-> 1024 * 1024, ChunkingMax |-> 8192 * 1024]}

\* the key of each identifier, computed once
SnapshotKeyOf == [indexID \in UUIDs |-> SnapshotKey(indexID)]

\* the location before any call: no bucket, no transaction.  headers are the
\* ids whose header has been stored and not deleted since, deleted those
\* deleted and not stored since; nullCreated tells whether a Create of the
\* null backend has returned nil; put maps every <<namespace, id>> that has
\* been put and not deleted since to the data of its last put; created holds,
\* for each backend, the configuration of its last Create that returned nil
NewStore ==
    [bucket |-> FALSE, objects |-> EmptyMap, tx |-> {},
     headers |-> {}, deleted |-> {}, nullCreated |-> FALSE, configWrites |-> 0,
     put |-> EmptyMap,
     created |-> [backend \in {"s3", "null"} |-> <<>>],
     last |-> [op |-> "none"]]

\* minioClient.MakeBucket
MakeBucket(s) ==
    IF s.bucket THEN [err |-> TRUE, s |-> s]
    ELSE [err |-> FALSE, s |-> [s EXCEPT !.bucket = TRUE]]

\* minioClient.PutObject; configWrites counts the writes of CONFIG
PutObject(s, key, data) ==
    IF ~s.bucket THEN [err |-> TRUE, s |-> s]
    ELSE [err |-> FALSE,
          s |-> [s EXCEPT !.objects = Put(@, key, data),
                          !.configWrites = IF key = ConfigKey THEN @ + 1 ELSE @]]

\* minioClient.RemoveObject: no error for an object that is not there
RemoveObject(s, key) ==
    IF ~s.bucket THEN [err |-> TRUE, s |-> s]
    ELSE [err |-> FALSE,
          s |-> [s EXCEPT !.objects = [k \in (DOMAIN @) \ {key} |-> @[k]]]]

\* what minioClient.ListObjects sends on its channel, Recursive set
ListObjects(s, prefix) ==
    IF ~s.bucket THEN <<[Key |-> <<>>, Err |-> TRUE]>>
    ELSE InSomeOrder({[Key |-> k, Err |-> FALSE] : k \in {x \in DOMAIN s.objects : HasPrefix(x, prefix)}})

\* the stored CONFIG, if there is one
StoredConfig(s) == IF ConfigKey \in DOMAIN s.objects THEN <<s.objects[ConfigKey]>> ELSE <<>>

\* S3Repository.Create that goes on when MakeBucket fails
S3CreateOverwrites(s, config) ==
    LET made == MakeBucket(s)
        put == PutObject(made.s, ConfigKey, Marshal(config))
    IN IF put.err THEN [err |-> TRUE, s |-> made.s]
       ELSE [err |-> FALSE, s |-> put.s]

\* S3Repository.Create
S3Create(s, config) ==
    LET made == MakeBucket(s)
        put == PutObject(made.s, ConfigKey, Marshal(config))
    IN IF made.err THEN [err |-> TRUE, s |-> s]
       ELSE IF put.err THEN [err |-> TRUE, s |-> made.s]
       ELSE [err |-> FALSE, s |-> put.s]

\* Create of the null backend
NullCreate(s, config) == [err |-> FALSE, s |-> s]

\* S3Repository.Transaction that stores an empty header at once
TransactionStores(s, indexID) ==
    [PutObject(s, SnapshotKeyOf[indexID], "") .s EXCEPT !.tx = @ \cup {indexID}]

\* S3Repository.Transaction
Transaction(s, indexID) == [s EXCEPT !.tx = @ \cup {indexID}]

\* S3Repository.PutSnapshot
PutSnapshot(s, indexID, data) == PutObject(s, SnapshotKeyOf[indexID], data)

\* S3Transaction.Commit
Commit(s, indexID, data) ==
    LET put == PutObject(s, SnapshotKeyOf[indexID], data)
    IN IF put.err THEN put ELSE [err |-> FALSE, s |-> [put.s EXCEPT !.tx = @ \ {indexID}]]

\* S3Repository.DeleteSnapshot
DeleteSnapshot(s, indexID) == RemoveObject(s, SnapshotKeyOf[indexID])

\* S3Repository.GetSnapshots
GetSnapshots(s) ==
    LET kept == SelectSeq(ListObjects(s, SnapshotPrefix),
                          LAMBDA object : HasPrefix(object.Key, SnapshotPrefix) /\ Len(object.Key) >= 12)
    IN [i \in 1..Len(kept) |-> MustParse(SubSeq(kept[i].Key, 13, Len(kept[i].Key)))]

\* a header is stored from now on
Stored(s, indexID) == [s EXCEPT !.headers = @ \cup {indexID}, !.deleted = @ \ {indexID}]

\* the history of a call that put data under id in a namespace, or deleted
\* id from it (data "gone"); a call that failed leaves no trace
Traced(r, namespace, id, data) ==
    IF r.err THEN r.s
    ELSE IF data = "gone"
    THEN [r.s EXCEPT !.put = [k \in (DOMAIN @) \ {<<namespace, id>>} |-> @[k]]]
    ELSE [r.s EXCEPT !.put = Put(@, <<namespace, id>>, data)]

InitStore ==
    /\ store = NewStore
    /\ InitVFS
    /\ procs = <<>>
    /\ stream = NoStream
    /\ kdf = NoKdf
    /\ query = NoQuery
    /\ hdr = NoHdr

S3CreateCall ==
    /\ \E config \in Configs :
          LET r == S3Create(store, config)
          IN store' = [r.s EXCEPT !.created["s3"] = IF r.err THEN @ ELSE <<config>>, !.last =
                 [op |-> "Create", backend |-> "s3", err |-> r.err,
                  held |-> StoredConfig(store) # <<>>,
                  configBefore |-> StoredConfig(store),
                  writesBefore |-> store.configWrites]]
    /\ UNCHANGED <<indexVars, stream, kdf, query, hdr>>

NullCreateCall ==
    /\ \E config \in Configs :
          LET r == NullCreate(store, config)
          IN store' = [r.s EXCEPT !.nullCreated = @ \/ ~r.err,
                                  !.created["null"] = IF r.err THEN @ ELSE <<config>>, !.last =
                 [op |-> "Create", backend |-> "null", err |-> r.err,
                  held |-> store.nullCreated,
                  configBefore |-> StoredConfig(store),
                  writesBefore |-> store.configWrites]]
    /\ UNCHANGED <<indexVars, stream, kdf, query, hdr>>

TransactionCall ==
    /\ \E indexID \in UUIDs \ store.tx :
          store' = [Transaction(store, indexID) EXCEPT !.last = [op |-> "Transaction"]]
    /\ UNCHANGED <<indexVars, stream, kdf, query, hdr>>

CommitCall ==
    /\ \E indexID \in store.tx, data \in Headers :
          LET r == Commit(store, indexID, data)
          IN store' = [(IF r.err THEN r.s ELSE Stored(Traced(r, "SNAPSHOT", indexID, data), indexID))
                          EXCEPT !.last = [op |-> "Commit", err |-> r.err]]
    /\ UNCHANGED <<indexVars, stream, kdf, query, hdr>>

PutSnapshotCall ==
    /\ \E indexID \in UUIDs, data \in Headers :
          LET r == PutSnapshot(store, indexID, data)
          IN store' = [(IF r.err THEN r.s ELSE Stored(Traced(r, "SNAPSHOT", indexID, data), indexID))
                          EXCEPT !.last = [op |-> "PutSnapshot", err |-> r.err]]
    /\ UNCHANGED <<indexVars, stream, kdf, query, hdr>>

DeleteSnapshotCall ==
    /\ \E indexID \in UUIDs :
          LET r == DeleteSnapshot(store, indexID)
          IN store' = [(IF r.err THEN r.s
                        ELSE [Traced(r, "SNAPSHOT", indexID, "gone")
                                  EXCEPT !.headers = @ \ {indexID},
                                         !.deleted = @ \cup {indexID}])
                          EXCEPT !.last = [op |-> "DeleteSnapshot", err |-> r.err]]
    /\ UNCHANGED <<indexVars, stream, kdf, query, hdr>>

GetSnapshotsCall ==
    /\ store' = [store EXCEPT !.last = [op |-> "GetSnapshots", ret |-> GetSnapshots(store)]]
    /\ UNCHANGED <<indexVars, stream, kdf, query, hdr>>

NextStore ==
    \/ S3CreateCall
    \/ NullCreateCall
    \/ TransactionCall
    \/ CommitCall
    \/ PutSnapshotCall
    \/ DeleteSnapshotCall
    \/ GetSnapshotsCall

SpecStore == InitStore /\ [][NextStore]_vars

\* C9: GetSnapshots of the S3 backend returns, once each, exactly the ids
\* whose header has been stored (Commit or PutSnapshot) and not deleted since;
\* the id of a transaction that is open and not committed is not returned,
\* nor is a deleted id that has not been stored again.
C9_ListedIffStored ==
    store.last.op = "GetSnapshots" =>
        LET ret == store.last.ret
            listed == {ret[i] : i \in DOMAIN ret}
        IN /\ listed = store.headers
           /\ Len(ret) = Cardinality(store.headers)
           /\ listed \cap (store.tx \ store.headers) = {}
           /\ listed \cap store.deleted = {}

\* GetSnapshots has listed a stored id while a transaction is open for an id
\* without a header and another id has been deleted
C9_ListedSomeNotAll ==
    /\ store.last.op = "GetSnapshots"
    /\ store.last.ret # <<>>
    /\ store.tx \ store.headers # {}
    /\ store.deleted # {}

-----------------------------------------------------------------------------
(* The S3 backend: blobs and chunks, and the gets of the three namespaces.   *)

\* fmt.Sprintf("BLOB/%02x/%016x", checksum[0], checksum) and
\* fmt.Sprintf("CHUNK/%02x/%064x", checksum[0], checksum): %x of a byte array
\* is the hexadecimal form of all its bytes, longer than either width
ChecksumKey(namespace, checksum) ==
    namespace \o <<"/">> \o HexByte(checksum[1]) \o <<"/">> \o HexBytes(checksum)

BlobPrefix == <<"B", "L", "O", "B">>
ChunkPrefix == <<"C", "H", "U", "N", "K">>

\* hex.DecodeString(s)
HexDecodeString(s) ==
    IF Len(s) % 2 # 0 \/ \E i \in DOMAIN s : HexValue(s[i]) = 16
    THEN [err |-> TRUE, bytes |-> <<>>]
    ELSE [err |-> FALSE,
          bytes |-> [j \in 1..(Len(s) \div 2) |-> 16 * HexValue(s[2 * j - 1]) + HexValue(s[2 * j])]]

\* GetObject that answers a missing key with empty data and no error
GetObjectEmpty(s, key) ==
    IF s.bucket /\ key \in DOMAIN s.objects
    THEN [err |-> FALSE, data |-> s.objects[key]]
    ELSE [err |-> FALSE, data |-> ""]

\* minioClient.GetObject, object.Stat and object.Read into a buffer of
\* stat.Size bytes: the data, or the error of Stat and nil
GetObject(s, key) ==
    IF s.bucket /\ key \in DOMAIN s.objects
    THEN [err |-> FALSE, data |-> s.objects[key]]
    ELSE [err |-> TRUE, data |-> "nil"]

\* S3Repository.GetBlobs that lists the directory of each blob too
GetBlobsShort(s) ==
    LET kept == SelectSeq(ListObjects(s, BlobPrefix \o <<"/">>),
                          LAMBDA object : HasPrefix(object.Key, BlobPrefix \o <<"/">>) /\ Len(object.Key) >= 8)
        t(i) == HexDecodeString(SubSeq(kept[i].Key, 6, 7) \o SubSeq(kept[i].Key, 9, Len(kept[i].Key)))
    IN [err |-> FALSE, ret |-> [i \in 1..Len(kept) |-> t(i).bytes]]

\* S3Repository.GetBlobs
GetBlobs(s) ==
    LET kept == SelectSeq(ListObjects(s, BlobPrefix \o <<"/">>),
                          LAMBDA object : HasPrefix(object.Key, BlobPrefix \o <<"/">>) /\ Len(object.Key) >= 8)
        t(i) == HexDecodeString(SubSeq(kept[i].Key, 9, Len(kept[i].Key)))
        whole == SelectSeq([i \in 1..Len(kept) |-> t(i).bytes], LAMBDA b : Len(b) = 32)
    IN IF \E i \in 1..Len(kept) : t(i).err
       THEN [err |-> TRUE, ret |-> <<>>]
       ELSE [err |-> FALSE, ret |-> whole]

\* the checksums of the blobs and chunks, and their data
Checksums ==
    {[j \in 1..32 |-> (7 * j + 3) % 256],
     [j \in 1..32 |-> IF j = 1 THEN 10 ELSE (11 * j) % 256]}
Blocks == {"d1", "d2"}

\* the key of each checksum in a namespace, computed once
BlobKeyOf == [checksum \in Checksums |-> ChecksumKey(BlobPrefix, checksum)]
ChunkKeyOf == [checksum \in Checksums |-> ChecksumKey(ChunkPrefix, checksum)]

PutBlobCall ==
    /\ \E checksum \in Checksums, data \in Blocks :
          LET r == PutObject(store, BlobKeyOf[checksum], data)
          IN store' = [Traced(r, "BLOB", checksum, data)
                          EXCEPT !.last = [op |-> "PutBlob", err |-> r.err]]
    /\ UNCHANGED <<indexVars, stream, kdf, query, hdr>>

DeleteBlobCall ==
    /\ \E checksum \in Checksums :
          LET r == RemoveObject(store, BlobKeyOf[checksum])
          IN store' = [Traced(r, "BLOB", checksum, "gone")
                          EXCEPT !.last = [op |-> "DeleteBlob", err |-> r.err]]
    /\ UNCHANGED <<indexVars, stream, kdf, query, hdr>>

GetBlobsCall ==
    /\ store' = [store EXCEPT !.last = [op |-> "GetBlobs", err |-> GetBlobs(store).err,
                                        ret |-> GetBlobs(store).ret]]
    /\ UNCHANGED <<indexVars, stream, kdf, query, hdr>>

PutChunkCall ==
    /\ \E checksum \in Checksums, data \in Blocks :
          LET r == PutObject(store, ChunkKeyOf[checksum], data)
          IN store' = [Traced(r, "CHUNK", checksum, data)
                          EXCEPT !.last = [op |-> "PutChunk", err |-> r.err]]
    /\ UNCHANGED <<indexVars, stream, kdf, query, hdr>>

DeleteChunkCall ==
    /\ \E checksum \in Checksums :
          LET r == RemoveObject(store, ChunkKeyOf[checksum])
          IN store' = [Traced(r, "CHUNK", checksum, "gone")
                          EXCEPT !.last = [op |-> "DeleteChunk", err |-> r.err]]
    /\ UNCHANGED <<indexVars, stream, kdf, query, hdr>>

\* S3Repository.GetSnapshot
GetSnapshotCall ==
    /\ \E indexID \in UUIDs :
          LET r == GetObject(store, SnapshotKeyOf[indexID])
          IN store' = [store EXCEPT !.last = [op |-> "Get", namespace |-> "SNAPSHOT",
                                              id |-> indexID, err |-> r.err, data |-> r.data]]
    /\ UNCHANGED <<indexVars, stream, kdf, query, hdr>>

\* S3Repository.GetBlob
GetBlobCall ==
    /\ \E checksum \in Checksums :
          LET r == GetObject(store, BlobKeyOf[checksum])
          IN store' = [store EXCEPT !.last = [op |-> "Get", namespace |-> "BLOB",
                                              id |-> checksum, err |-> r.err, data |-> r.data]]
    /\ UNCHANGED <<indexVars, stream, kdf, query, hdr>>

\* S3Repository.GetChunk
GetChunkCall ==
    /\ \E checksum \in Checksums :
          LET r == GetObject(store, ChunkKeyOf[checksum])
          IN store' = [store EXCEPT !.last = [op |-> "Get", namespace |-> "CHUNK",
                                              id |-> checksum, err |-> r.err, data |-> r.data]]
    /\ UNCHANGED <<indexVars, stream, kdf, query, hdr>>

\* puts, deletes and listings of snapshots and blobs
NextList ==
    \/ S3CreateCall
    \/ PutSnapshotCall
    \/ DeleteSnapshotCall
    \/ GetSnapshotsCall
    \/ PutBlobCall
    \/ DeleteBlobCall
    \/ GetBlobsCall

SpecList == InitStore /\ [][NextList]_vars

\* puts, deletes and gets of snapshots, blobs and chunks
NextGet ==
    \/ S3CreateCall
    \/ PutSnapshotCall
    \/ DeleteSnapshotCall
    \/ GetSnapshotCall
    \/ PutBlobCall
    \/ DeleteBlobCall
    \/ GetBlobCall
    \/ PutChunkCall
    \/ DeleteChunkCall
    \/ GetChunkCall

SpecGet == InitStore /\ [][NextGet]_vars

\* the ids put in a namespace and not deleted since
Present(namespace) == {k[2] : k \in {x \in DOMAIN store.put : x[1] = namespace}}

\* C11: after any puts and deletes of snapshots and blobs, GetSnapshots and
\* GetBlobs return, once each and in some order, exactly the ids put and not
\* deleted since.
C11_ListsArePresentKeys ==
    /\ store.last.op = "GetSnapshots" =>
          /\ {store.last.ret[i] : i \in DOMAIN store.last.ret} = Present("SNAPSHOT")
          /\ Len(store.last.ret) = Cardinality(Present("SNAPSHOT"))
    /\ store.last.op = "GetBlobs" =>
          /\ ~store.last.err
          /\ {store.last.ret[i] : i \in DOMAIN store.last.ret} = Present("BLOB")
          /\ Len(store.last.ret) = Cardinality(Present("BLOB"))

\* GetBlobs has listed one blob while another was put and deleted, and a
\* snapshot is stored
C11_BlobListedAfterDelete ==
    /\ store.last.op = "GetBlobs"
    /\ Len(store.last.ret) = 1
    /\ \E c \in Checksums : BlobKeyOf[c] \notin DOMAIN store.objects
    /\ Present("SNAPSHOT") # {}

\* C12: a get of a snapshot, blob or chunk that was never put, or deleted
\* after its last put, returns an error and no data; a get of one that is
\* present returns the data of its last put.
C12_GetReturnsLastPut ==
    store.last.op = "Get" =>
        IF <<store.last.namespace, store.last.id>> \in DOMAIN store.put
        THEN ~store.last.err /\ store.last.data = store.put[<<store.last.namespace, store.last.id>>]
        ELSE store.last.err /\ store.last.data = "nil"

\* a chunk put twice with different data has been read, and a blob deleted
\* after its put has been asked for
C12_GotSecondPut ==
    /\ store.last.op = "Get"
    /\ store.last.namespace = "CHUNK"
    /\ store.last.data = "d2"
    /\ ~store.last.err

-----------------------------------------------------------------------------
(* Lookup and LookupChildren on an index that buildTree calls have made.     *)

\* the buildTree calls that made the index
MaxBuilt == 3

\* the characters of the names, in the order of their bytes
byteOrder ==
    <<".", "/", "a", "b", "c", "d", "e", "f", "g", "h", "i", "j", "k", "l", "m",
      "n", "o", "p", "q", "r", "s", "t", "u", "v", "w", "x", "y", "z">>

\* a < b for Go strings: byte by byte, a proper prefix first
RECURSIVE StringLess(_, _)
StringLess(a, b) ==
    IF b = <<>> THEN FALSE
    ELSE IF a = <<>> THEN TRUE
    ELSE IF Head(a) = Head(b) THEN StringLess(Tail(a), Tail(b))
    ELSE (CHOOSE i \in DOMAIN byteOrder : byteOrder[i] = Head(a))
            < (CHOOSE i \in DOMAIN byteOrder : byteOrder[i] = Head(b))

\* sort.Strings(ret): each string goes before the first greater one
RECURSIVE SortStrings(_)
SortStrings(ret) ==
    IF ret = <<>> THEN <<>>
    ELSE LET sorted == SortStrings(Tail(ret))
             before == SelectSeq(sorted, LAMBDA x : ~StringLess(Head(ret), x))
             after == SelectSeq(sorted, LAMBDA x : StringLess(Head(ret), x))
         IN before \o <<Head(ret)>> \o after

\* LookupChildren without the test of parentInode.Mode().IsDir()
LookupChildrenOfAny(f, pathname) ==
    LET parent == Lookup(f, LookupPath(pathname))
    IN IF parent = NotFound THEN [err |-> "ErrNotExist", ret |-> <<>>]
       ELSE [err |-> "nil", ret |-> SortStrings(InSomeOrder(DOMAIN f.nodes[parent].Children))]

\* LookupChildren(pathname): the sorted names, or an error and a nil slice
LookupChildren(f, pathname) ==
    LET parent == Lookup(f, LookupPath(pathname))
    IN IF parent = NotFound THEN [err |-> "ErrNotExist", ret |-> <<>>]
       ELSE IF ~IsDir(InodeRecord(f, f.nodes[parent].Inode)) THEN [err |-> "ErrInvalid", ret |-> <<>>]
       ELSE [err |-> "nil", ret |-> SortStrings(InSomeOrder(DOMAIN f.nodes[parent].Children))]

\* the pathnames and file infos of the buildTree calls that made the index
IndexPaths ==
    {<<"/">>, Abs(<<<<"a">>>>), Abs(<<<<"a", "b">>>>), Abs(<<<<"b">>>>), Abs(<<<<"a">>, <<"b">>>>)}
IndexInfos == {FileInfo(<<"d">>, 1, 1, "dir", 0), FileInfo(<<"f">>, 1, 3, "reg", 1)}

\* the index after MaxBuilt buildTree calls
InitLookup ==
    /\ \E steps \in [1..MaxBuilt -> [pathname : IndexPaths, fileinfo : IndexInfos, symlink : {FALSE}]] :
          /\ fs = ScanFold(NewFilesystem, steps)
          /\ built = BuiltAfter(EmptyMap, steps)
          /\ nBuilt = NBuiltAfter(EmptyMap, steps)
    /\ last = "buildTree"
    /\ nLoads = 0
    /\ calls = MaxBuilt
    /\ procs = <<>>
    /\ stream = NoStream
    /\ kdf = NoKdf
    /\ store = NoStore
    /\ query = NoQuery
    /\ hdr = NoHdr

\* the pathnames handed to Lookup and LookupChildren; a call is recorded
\* with the number of calls that have changed the index before it
LookupPaths ==
    {<<"/">>, <<".">>, <<"/", "a">>, <<"/", "a", "/", "b">>, <<"/", "b", "/", ".", ".", "/", "a">>,
     <<"/", "x">>, <<"a">>, <<"a", "/", "b">>}

LookupCall ==
    /\ \E pathname \in LookupPaths :
          query' = [pc |-> "returned", op |-> "Lookup", pathname |-> pathname, at |-> calls,
                    node |-> Lookup(fs, pathname)]
    /\ UNCHANGED <<indexVars, stream, kdf, store, hdr>>

LookupChildrenCall ==
    /\ \E pathname \in LookupPaths :
          query' = [pc |-> "returned", op |-> "LookupChildren", pathname |-> pathname, at |-> calls,
                    node |-> Lookup(fs, pathname),
                    err |-> LookupChildren(fs, pathname).err,
                    ret |-> LookupChildren(fs, pathname).ret]
    /\ UNCHANGED <<indexVars, stream, kdf, store, hdr>>

NextLookup ==
    \/ LookupCall
    \/ LookupChildrenCall

SpecLookup == InitLookup /\ [][NextLookup]_vars

\* a call of op has returned and the index has not changed since
Returned(op) == query.pc = "returned" /\ query.op = op /\ query.at = calls

\* every atom of a canonical pathname, absolute or not
EveryAtom(canonical) == SelectSeq(Split(canonical), LAMBDA atom : atom # <<>>)

\* C13: Lookup(p) returns Root for "/" (and for "."), and for every other
\* path, absolute or not, the node reached from Root by following every atom
\* of the canonical form of p in order, not-found when an atom is missing.
C13_LookupFollowsEveryAtom ==
    Returned("Lookup") =>
        LET canonical == LookupPath(query.pathname)
        IN query.node = IF canonical = <<"/">> THEN Root
                        ELSE Descend(fs.nodes, Root, EveryAtom(canonical))

\* C14: LookupChildren of a path that resolves returns the names of the
\* node's children, each once and in ascending order, when the node's inode
\* record is a directory, and a not-a-directory error otherwise; of a path
\* that does not resolve it returns not-found.
C14_ChildrenSortedOrError ==
    Returned("LookupChildren") =>
        IF query.node = NotFound
        THEN query.err = "ErrNotExist" /\ query.ret = <<>>
        ELSE IF ~IsDir(InodeRecord(fs, fs.nodes[query.node].Inode))
        THEN query.err = "ErrInvalid" /\ query.ret = <<>>
        ELSE /\ query.err = "nil"
             /\ {query.ret[i] : i \in DOMAIN query.ret} = DOMAIN fs.nodes[query.node].Children
             /\ \A i, j \in DOMAIN query.ret : i < j => StringLess(query.ret[i], query.ret[j])

\* LookupChildren has returned the names "a" and "ab" of a directory
C14_TwoChildrenListed ==
    /\ Returned("LookupChildren")
    /\ query.err = "nil"
    /\ query.ret = <<<<"a">>, <<"a", "b">>>>


\* ---------------------------------------------------------------------------
\* LookupChildren beside concurrent buildTree calls
\* ---------------------------------------------------------------------------

\* the pathnames and file infos the goroutines build, and the pathnames read
RacePaths == {Abs(<<<<"a">>>>), Abs(<<<<"a">>, <<"b">>>>), Abs(<<<<"a">>, <<"c">>>>)}

RaceInfos == {FileInfo(<<"d">>, 1, 1, "dir", 0), FileInfo(<<"f">>, 1, 3, "reg", 1)}

ReaderPaths == {Abs(<<<<"a">>>>), Abs(<<<<"a">>, <<"b">>>>)}

\* a LookupChildren call that has canonicalized its pathname and enters Lookup
NewReader(pathname) ==
    LET canonical == LookupPath(pathname)
        atoms == IF canonical = <<"/">> THEN <<>> ELSE AtomsOf(canonical)
    IN [pc |-> IF atoms = <<>> THEN "inode" ELSE "Lookup", op |-> "LookupChildren",
        pathname |-> pathname, atoms |-> atoms, p |-> Root,
        began |-> {}, ret |-> <<>>, err |-> "nil"]

InitRace ==
    /\ fs = NewFilesystem
    /\ built = EmptyMap
    /\ nBuilt = EmptyMap
    /\ last = "new"
    /\ nLoads = 0
    /\ calls = 0
    /\ \E b \in [1..NBuilders -> RacePaths \X RaceInfos] :
          /\ \A i, j \in 1..NBuilders : i # j => b[i][1] # b[j][1]
          /\ procs = [i \in 1..NBuilders |-> NewBuilder(b[i][1], b[i][2])]
    /\ stream = NoStream
    /\ kdf = NoKdf
    /\ store = NoStore
    /\ \E pathname \in ReaderPaths : query = NewReader(pathname)
    /\ hdr = NoHdr

\* Lookup: tmp, exists := p.Children[atom], under p.muNode
ReaderLookup ==
    /\ query.pc = "Lookup"
    /\ LET tmp == ChildOf(fs.nodes, query.p, Head(query.atoms))
       IN query' = IF tmp = NotFound
                   THEN [query EXCEPT !.pc = "returned", !.err = "ErrNotExist"]
                   ELSE [query EXCEPT !.p = tmp,
                                      !.atoms = Tail(@),
                                      !.pc = IF Tail(query.atoms) = <<>>
                                             THEN "inode" ELSE "Lookup"]
    /\ UNCHANGED <<indexVars, stream, kdf, store, hdr>>

\* parentInode := filesystem.Inodes[parent.Inode], under muInodes, and the
\* test of its mode; the loop over parent.Children then starts with no lock
ReaderInode ==
    /\ query.pc = "inode"
    /\ query' = IF ~IsDir(InodeRecord(fs, fs.nodes[query.p].Inode))
                THEN [query EXCEPT !.pc = "returned", !.err = "ErrInvalid"]
                ELSE [query EXCEPT !.pc = "range",
                                   !.began = DOMAIN fs.nodes[query.p].Children]
    /\ UNCHANGED <<indexVars, stream, kdf, store, hdr>>

\* for child := range parent.Children { ret = append(ret, child) }: one
\* iteration, p.muNode not held; a key stored since the loop began may come
ReaderRange ==
    /\ query.pc = "range"
    /\ \E child \in DOMAIN fs.nodes[query.p].Children :
          /\ \A i \in DOMAIN query.ret : query.ret[i] # child
          /\ query' = [query EXCEPT !.ret = Append(@, child)]
    /\ UNCHANGED <<indexVars, stream, kdf, store, hdr>>

\* the loop ends, having produced every key the map held when it began (a
\* key stored since may have been left out); sort.Strings(ret); return ret, nil
ReaderReturn ==
    /\ query.pc = "range"
    /\ query.began \subseteq {query.ret[i] : i \in DOMAIN query.ret}
    /\ query' = [query EXCEPT !.pc = "returned", !.ret = SortStrings(@)]
    /\ UNCHANGED <<indexVars, stream, kdf, store, hdr>>

\* the runtime finds the map written during the iteration and stops the
\* process: "fatal error: concurrent map iteration and map write"
ReaderThrow ==
    /\ query.pc = "range"
    /\ DOMAIN fs.nodes[query.p].Children # query.began
    /\ query' = [query EXCEPT !.pc = "fatal"]
    /\ UNCHANGED <<indexVars, stream, kdf, store, hdr>>

NextRace ==
    \/ \E i \in DOMAIN procs : BuilderAddInode(i)
    \/ \E i \in DOMAIN procs : BuilderAddPathname(i)
    \/ \E i \in DOMAIN procs : BuilderRead(i)
    \/ \E i \in DOMAIN procs : BuilderCreate(i)
    \/ \E i \in DOMAIN procs : BuilderSetInode(i)
    \/ \E i \in DOMAIN procs : BuilderSetStat(i)
    \/ \E i \in DOMAIN procs : BuilderCount(i)
    \/ ReaderLookup
    \/ ReaderInode
    \/ ReaderRange
    \/ ReaderReturn
    \/ ReaderThrow

SpecRace == InitRace /\ [][NextRace]_vars

\* C15: every read of a node's Children map is made under the node's muNode,
\* so while LookupChildren iterates over parent.Children no buildTree call
\* stores a key in that map: the map is as it was when the iteration began.
C15_NoReadOverlapsWrite ==
    query.pc = "range" => DOMAIN fs.nodes[query.p].Children = query.began


\* ---------------------------------------------------------------------------
\* header: sort keys and SortHeaders
\* ---------------------------------------------------------------------------

MaxHeaders == 3
MaxKeys == 2

\* the names of the sort keys, and "-" before a name
CreationTimeKey == <<"C", "r", "e", "a", "t", "i", "o", "n", "T", "i", "m", "e">>
SnapshotIDKey == <<"S", "n", "a", "p", "s", "h", "o", "t", "I", "D">>
VersionKey == <<"V", "e", "r", "s", "i", "o", "n">>
TagsKey == <<"T", "a", "g", "s">>
CategoryKey == <<"C", "a", "t", "e", "g", "o", "r", "y">>

Descending(key) == <<"-">> \o key

\* the names of the fields of Header
HeaderFields ==
    {SnapshotIDKey, VersionKey, CreationTimeKey,
     <<"C", "r", "e", "a", "t", "i", "o", "n", "D", "u", "r", "a", "t", "i", "o", "n">>,
     <<"I", "d", "e", "n", "t", "i", "t", "y">>,
     CategoryKey, TagsKey,
     <<"C", "o", "n", "t", "e", "x", "t">>,
     <<"I", "m", "p", "o", "r", "t", "e", "r">>,
     <<"R", "o", "o", "t">>,
     <<"I", "n", "d", "e", "x">>,
     <<"M", "e", "t", "a", "d", "a", "t", "a">>,
     <<"S", "t", "a", "t", "i", "s", "t", "i", "c", "s">>,
     <<"E", "r", "r", "o", "r", "s">>,
     <<"S", "u", "m", "m", "a", "r", "y">>}

\* a time.Time: an instant and the location it is shown in
Time(instant, loc) == [instant |-> instant, loc |-> loc]

\* the position of the first byte (or tag) in which a and b differ, 0 if
\* they agree on the first n
FirstDifference(a, b, n) ==
    LET diff == {k \in 1..n : a[k] # b[k]}
    IN IF diff = {} THEN 0 ELSE CHOOSE k \in diff : \A m \in diff : k <= m

\* the switch of the less function on one key: "less" and "notless" are what
\* it returns, "next" is the fall through to the next key, "invalid" the default
compareKey(key, hi, hj) ==
    LET decided(lt) == IF lt THEN "less" ELSE "notless"
        id == FirstDifference(hi.SnapshotID, hj.SnapshotID, Len(hi.SnapshotID))
        minLen == IF Len(hi.Tags) < Len(hj.Tags) THEN Len(hi.Tags) ELSE Len(hj.Tags)
        tag == FirstDifference(hi.Tags, hj.Tags, minLen)
    IN CASE key = CreationTimeKey ->
              IF hi.CreationTime.instant # hj.CreationTime.instant
              THEN decided(hi.CreationTime.instant < hj.CreationTime.instant)
              ELSE "next"
         [] key = Descending(CreationTimeKey) ->
              IF hi.CreationTime.instant # hj.CreationTime.instant
              THEN decided(hi.CreationTime.instant > hj.CreationTime.instant)
              ELSE "next"
         [] key = SnapshotIDKey ->
              IF id # 0 THEN decided(hi.SnapshotID[id] < hj.SnapshotID[id]) ELSE "next"
         [] key = Descending(SnapshotIDKey) ->
              IF id # 0 THEN decided(hi.SnapshotID[id] > hj.SnapshotID[id]) ELSE "next"
         [] key = VersionKey ->
              IF hi.Version # hj.Version
              THEN decided(StringLess(hi.Version, hj.Version)) ELSE "next"
         [] key = Descending(VersionKey) ->
              IF hi.Version # hj.Version
              THEN decided(StringLess(hj.Version, hi.Version)) ELSE "next"
         [] key = TagsKey ->
              IF tag # 0 THEN decided(StringLess(hi.Tags[tag], hj.Tags[tag]))
              ELSE IF Len(hi.Tags) # Len(hj.Tags)
                   THEN decided(Len(hi.Tags) < Len(hj.Tags)) ELSE "next"
         [] key = Descending(TagsKey) ->
              IF tag # 0 THEN decided(StringLess(hj.Tags[tag], hi.Tags[tag]))
              ELSE IF Len(hi.Tags) # Len(hj.Tags)
                   THEN decided(Len(hi.Tags) > Len(hj.Tags)) ELSE "next"
         [] OTHER -> "invalid"

InvalidSortKey(key) == <<"invalid sort key", key>>

\* the less function with no tie-break: a tie on the first key is "not less"
RECURSIVE LessFirstKeyOnly(_, _, _)
LessFirstKeyOnly(hi, hj, sortKeys) ==
    IF sortKeys = <<>> THEN [lt |-> FALSE, err |-> "nil"]
    ELSE LET r == compareKey(Head(sortKeys), hi, hj)
         IN IF r = "next" THEN [lt |-> FALSE, err |-> "nil"]
            ELSE [lt |-> r = "less",
                  err |-> IF r = "invalid" THEN InvalidSortKey(Head(sortKeys)) ELSE "nil"]

\* the less function returning true for headers that tie on every key
RECURSIVE LessOrTie(_, _, _)
LessOrTie(hi, hj, sortKeys) ==
    IF sortKeys = <<>> THEN [lt |-> TRUE, err |-> "nil"]
    ELSE LET r == compareKey(Head(sortKeys), hi, hj)
         IN IF r = "next" THEN LessOrTie(hi, hj, Tail(sortKeys))
            ELSE [lt |-> r = "less",
                  err |-> IF r = "invalid" THEN InvalidSortKey(Head(sortKeys)) ELSE "nil"]

\* the less function passing over a key it does not know
RECURSIVE LessSkippingUnknown(_, _, _)
LessSkippingUnknown(hi, hj, sortKeys) ==
    IF sortKeys = <<>> THEN [lt |-> FALSE, err |-> "nil"]
    ELSE LET r == compareKey(Head(sortKeys), hi, hj)
         IN IF r \in {"next", "invalid"} THEN LessSkippingUnknown(hi, hj, Tail(sortKeys))
            ELSE [lt |-> r = "less", err |-> "nil"]

\* the less function given to sort.Slice, for headers[i] = hi and
\* headers[j] = hj: what it returns and what it assigns to err
RECURSIVE Less(_, _, _)
Less(hi, hj, sortKeys) ==
    IF sortKeys = <<>> THEN [lt |-> FALSE, err |-> "nil"]
    ELSE LET r == compareKey(Head(sortKeys), hi, hj)
         IN IF r = "next" THEN Less(hi, hj, Tail(sortKeys))
            ELSE [lt |-> r = "less",
                  err |-> IF r = "invalid" THEN InvalidSortKey(Head(sortKeys)) ELSE "nil"]

\* SortHeaders(headers, sortKeys): the slice as it is left, the error, and
\* the pairs <<headers[j], headers[j-1]>> that were compared. sort.Slice on
\* fewer than 12 elements is an insertion sort:
\*   for i := 1; i < n; i++ { for j := i; j > 0 && less(j, j-1); j-- { swap } }
SortHeaders(headers, sortKeys) ==
    LET RECURSIVE insertionSort(_, _, _)
        insertionSort(st, i, j) ==
            IF i > Len(st.headers) THEN st
            ELSE IF j = 1 THEN insertionSort(st, i + 1, i + 1)
            ELSE LET r == Less(st.headers[j], st.headers[j - 1], sortKeys)
                     seen == [st EXCEPT
                                 !.err = IF r.err # "nil" THEN r.err ELSE @,
                                 !.compared = Append(@, <<st.headers[j], st.headers[j - 1]>>)]
                 IN IF r.lt
                    THEN insertionSort([seen EXCEPT !.headers[j] = st.headers[j - 1],
                                                    !.headers[j - 1] = st.headers[j]],
                                       i, j - 1)
                    ELSE insertionSort(seen, i + 1, i + 1)
    IN insertionSort([headers |-> headers, err |-> "nil", compared |-> <<>>], 2, 2)


\* strings.Split(sortKeysStr, ",")
RECURSIVE SplitComma(_, _, _)
SplitComma(s, cur, acc) ==
    IF s = <<>> THEN Append(acc, cur)
    ELSE IF Head(s) = "," THEN SplitComma(Tail(s), <<>>, Append(acc, cur))
    ELSE SplitComma(Tail(s), Append(cur, Head(s)), acc)

\* strings.TrimSpace(key)
RECURSIVE TrimSpace(_)
TrimSpace(key) ==
    LET space == {" ", "\t", "\n", "\r"}
    IN IF key = <<>> THEN key
       ELSE IF Head(key) \in space THEN TrimSpace(Tail(key))
       ELSE IF key[Len(key)] \in space THEN TrimSpace(SubSeq(key, 1, Len(key) - 1))
       ELSE key

\* the name a key is looked up by: the key without one leading "-"
LookupKey(key) == IF key # <<>> /\ Head(key) = "-" THEN Tail(key) ELSE key

DuplicateKey(key) == <<"duplicate sort key", key>>

\* ParseSortKeys(sortKeysStr): the keys (nil is the empty sequence) and the
\* error; parseKeys is its loop over the keys still to read
ParseSortKeys(sortKeysStr) ==
    LET RECURSIVE parseKeys(_, _, _)
        parseKeys(keys, uniqueKeys, validKeys) ==
            IF keys = <<>> THEN [keys |-> validKeys, err |-> "nil"]
            ELSE LET key == TrimSpace(Head(keys))
                     lookupKey == LookupKey(key)
                 IN IF lookupKey \in uniqueKeys
                    THEN [keys |-> <<>>, err |-> DuplicateKey(key)]
                    ELSE IF lookupKey \notin HeaderFields
                         THEN [keys |-> <<>>, err |-> InvalidSortKey(key)]
                    ELSE parseKeys(Tail(keys), uniqueKeys \cup {lookupKey},
                                   Append(validKeys, key))
    IN IF sortKeysStr = <<>> THEN [keys |-> <<>>, err |-> "nil"]
       ELSE parseKeys(SplitComma(sortKeysStr, <<>>, <<>>), {}, <<>>)

\* the headers sorted: hA, hB, hC have creation times t1 < t2 < t3; hD has the
\* instant of hA in another location and another SnapshotID
SnapshotIDs == InSomeOrder(Checksums)

HeaderOf(instant, loc, id, version, tags) ==
    [SnapshotID |-> SnapshotIDs[id], Version |-> version,
     CreationTime |-> Time(instant, loc), Tags |-> tags]

hA == HeaderOf(1, "UTC", 1, <<"a">>, <<<<"x">>>>)
hB == HeaderOf(2, "UTC", 1, <<"a">>, <<<<"x">>, <<"y">>>>)
hC == HeaderOf(3, "UTC", 2, <<"a", "b">>, <<<<"z">>>>)
hD == HeaderOf(1, "CET", 2, <<"a">>, <<<<"x">>>>)

\* the slices sorted: up to MaxHeaders of the headers, each at most once
HeaderLists ==
    {headers \in UNION {[1..n -> {hA, hB, hC, hD}] : n \in 0..MaxHeaders} :
        \A i, j \in DOMAIN headers : i # j => headers[i] # headers[j]}

\* the strings parsed: up to MaxKeys keys with commas between them
KeyTokens ==
    {CreationTimeKey, Descending(CreationTimeKey), SnapshotIDKey,
     Descending(SnapshotIDKey), VersionKey, Descending(VersionKey), TagsKey,
     Descending(TagsKey), <<" ">> \o TagsKey, CategoryKey, <<"b", "o", "g", "u", "s">>}

RECURSIVE JoinComma(_)
JoinComma(keys) ==
    IF Len(keys) = 1 THEN keys[1] ELSE keys[1] \o <<",">> \o JoinComma(Tail(keys))

SortKeyStrings ==
    {<<>>} \cup {JoinComma(keys) : keys \in UNION {[1..n -> KeyTokens] : n \in 1..MaxKeys}}

MaxSorts == 2

InitSort ==
    /\ fs = NewFilesystem
    /\ built = EmptyMap
    /\ nBuilt = EmptyMap
    /\ last = "new"
    /\ nLoads = 0
    /\ calls = 0
    /\ procs = <<>>
    /\ stream = NoStream
    /\ kdf = NoKdf
    /\ store = NoStore
    /\ query = NoQuery
    /\ \E sortKeysStr \in SortKeyStrings, headers \in HeaderLists :
          hdr = [pc |-> "new", sortKeysStr |-> sortKeysStr, sortKeys |-> <<>>,
                 parseErr |-> "nil", input |-> headers, headers |-> headers,
                 prev |-> headers, err |-> "nil", compared |-> <<>>, sorts |-> 0]

\* sortKeys, err := ParseSortKeys(sortKeysStr)
ParseSortKeysCall ==
    /\ hdr.pc = "new"
    /\ LET r == ParseSortKeys(hdr.sortKeysStr)
       IN hdr' = [hdr EXCEPT !.pc = IF r.err = "nil" THEN "parsed" ELSE "failed",
                             !.sortKeys = r.keys,
                             !.parseErr = r.err]
    /\ UNCHANGED <<indexVars, stream, kdf, store, query>>

\* err := SortHeaders(headers, sortKeys), on the slice as the last call left it
SortHeadersCall ==
    /\ hdr.pc \in {"parsed", "sorted"}
    /\ hdr.sorts < MaxSorts
    /\ LET st == SortHeaders(hdr.headers, hdr.sortKeys)
       IN hdr' = [hdr EXCEPT !.pc = "sorted",
                             !.prev = hdr.headers,
                             !.headers = st.headers,
                             !.err = st.err,
                             !.compared = st.compared,
                             !.sorts = @ + 1]
    /\ UNCHANGED <<indexVars, stream, kdf, store, query>>

NextSort == ParseSortKeysCall \/ SortHeadersCall

SpecSort == InitSort /\ [][NextSort]_vars

\* the keys SortHeaders knows
Recognised ==
    {CreationTimeKey, SnapshotIDKey, VersionKey, TagsKey,
     Descending(CreationTimeKey), Descending(SnapshotIDKey),
     Descending(VersionKey), Descending(TagsKey)}

\* -1, 0 or 1 as a comes before, ties with or comes after b on one key in
\* its direction: instants for CreationTime, bytes for SnapshotID and Version,
\* tags one by one and then the number of tags for Tags
Order(key, a, b) ==
    LET base == LookupKey(key)
        precedes(x, y) ==
            CASE base = CreationTimeKey -> x.CreationTime.instant < y.CreationTime.instant
              [] base = SnapshotIDKey ->
                   \E k \in 1..32 : /\ x.SnapshotID[k] < y.SnapshotID[k]
                                    /\ \A m \in 1..(k - 1) : x.SnapshotID[m] = y.SnapshotID[m]
              [] base = VersionKey -> StringLess(x.Version, y.Version)
              [] base = TagsKey ->
                   \/ \E k \in DOMAIN x.Tags \cap DOMAIN y.Tags :
                         /\ StringLess(x.Tags[k], y.Tags[k])
                         /\ \A m \in 1..(k - 1) : x.Tags[m] = y.Tags[m]
                   \/ /\ Len(x.Tags) < Len(y.Tags)
                      /\ \A m \in DOMAIN x.Tags : x.Tags[m] = y.Tags[m]
        up == IF precedes(a, b) THEN -1 ELSE IF precedes(b, a) THEN 1 ELSE 0
    IN IF key = base THEN up ELSE -up

\* a is not after b: the first key on which they do not tie puts a first
InOrder(a, b, sortKeys) ==
    \A m \in DOMAIN sortKeys :
        (\A n \in 1..(m - 1) : Order(sortKeys[n], a, b) = 0) => Order(sortKeys[m], a, b) <= 0

AllRecognised(sortKeys) == \A m \in DOMAIN sortKeys : sortKeys[m] \in Recognised

Count(headers, h) == Cardinality({i \in DOMAIN headers : headers[i] = h})

Permutation(xs, ys) == \A h \in {hA, hB, hC, hD} : Count(xs, h) = Count(ys, h)

\* C16: for a list of the keys CreationTime, SnapshotID, Version and Tags,
\* each with or without "-", after SortHeaders every two headers at positions
\* i < j are in order under the lexicographic comparison over the keys, each
\* key in its direction, a tie on one key being decided by the next.
C16_SortedUnderKeys ==
    (hdr.pc = "sorted" /\ AllRecognised(hdr.sortKeys))
        => \A i, j \in DOMAIN hdr.headers :
              i < j => InOrder(hdr.headers[i], hdr.headers[j], hdr.sortKeys)

\* headers with times t1 < t2 < t3 and tags [x], [x, y], [z] sorted by
\* "-CreationTime,Tags" have come out as [t3, t2, t1]
C16_NewestFirst ==
    /\ hdr.pc = "sorted"
    /\ hdr.sortKeys = <<Descending(CreationTimeKey), TagsKey>>
    /\ hdr.input = <<hA, hB, hC>>
    /\ hdr.headers = <<hC, hB, hA>>

\* C17: SortHeaders leaves a permutation of its input, and sorting its result
\* again with the same valid keys leaves the order as it is, also when
\* distinct headers tie on every key.
C17_PermutationAndIdempotent ==
    hdr.pc = "sorted"
        => /\ Permutation(hdr.headers, hdr.input)
           /\ (hdr.sorts = 2 /\ AllRecognised(hdr.sortKeys)) => hdr.headers = hdr.prev

\* hD and hA, which tie on CreationTime and on Tags, have been sorted twice
\* by those keys with a third header that had to move
C17_TiedHeadersSortedTwice ==
    /\ hdr.pc = "sorted"
    /\ hdr.sorts = 2
    /\ hdr.sortKeys = <<CreationTimeKey, TagsKey>>
    /\ hdr.input = <<hB, hD, hA>>
    /\ hdr.headers = <<hD, hA, hB>>

\* the comparison of a and b reaches a key that SortHeaders does not know
ReachesUnknown(a, b, sortKeys) ==
    \E m \in DOMAIN sortKeys :
        /\ sortKeys[m] \notin Recognised
        /\ \A n \in 1..(m - 1) : sortKeys[n] \in Recognised /\ Order(sortKeys[n], a, b) = 0

\* C18: when a comparison made during SortHeaders reaches a key that is not
\* recognised the call returns an invalid sort key error (and no error
\* otherwise), and the slice it leaves is a permutation of the one it was given.
C18_UnknownKeyReported ==
    hdr.pc = "sorted"
        => /\ (\E c \in DOMAIN hdr.compared :
                  ReachesUnknown(hdr.compared[c][1], hdr.compared[c][2], hdr.sortKeys))
              <=> (hdr.err # "nil" /\ hdr.err[1] = "invalid sort key")
           /\ Permutation(hdr.headers, hdr.prev)

\* a sort by "Tags,Category" has moved headers and returned the error, hA and
\* hD tying on Tags
C18_ErrorAfterReordering ==
    /\ hdr.pc = "sorted"
    /\ hdr.sorts = 1
    /\ hdr.sortKeys = <<TagsKey, CategoryKey>>
    /\ hdr.input = <<hC, hA, hD>>
    /\ hdr.headers = <<hA, hD, hC>>
    /\ hdr.err = InvalidSortKey(CategoryKey)

\* C19: ParseSortKeys returns the keys, trimmed, in input order, exactly when
\* every key without its "-" is one of CreationTime, SnapshotID, Version, Tags
\* and no name occurs twice; a duplicate sort key error means a name is
\* repeated, an invalid sort key error that a name is not one of the four;
\* and SortHeaders with the keys returned gives no error.
C19_AcceptedIffRecognised ==
    LET keys == SplitComma(hdr.sortKeysStr, <<>>, <<>>)
        trimmed == [m \in DOMAIN keys |-> TrimSpace(keys[m])]
        names == [m \in DOMAIN keys |-> LookupKey(trimmed[m])]
        repeated == \E m, n \in DOMAIN names : m # n /\ names[m] = names[n]
        four == {CreationTimeKey, SnapshotIDKey, VersionKey, TagsKey}
        unknown == \E m \in DOMAIN names : names[m] \notin four
    IN /\ (hdr.pc = "parsed" /\ hdr.sortKeysStr # <<>>)
            => ~repeated /\ ~unknown /\ hdr.sortKeys = trimmed
       /\ hdr.pc = "failed"
            => /\ repeated \/ unknown
               /\ hdr.parseErr[1] = "duplicate sort key" => repeated
               /\ hdr.parseErr[1] = "invalid sort key" => unknown
       /\ hdr.pc = "sorted" => hdr.err = "nil"


\* ---------------------------------------------------------------------------
\* header: Context
\* ---------------------------------------------------------------------------

MaxContext == 3

ContextKeys == {"k1", "k2"}
ContextValues == {"v1", "v2"}

KeyValue(key, value) == [Key |-> key, Value |-> value]

\* storage.VERSION, a string constant of the storage package
VERSION == <<"s", "t", "o", "r", "a", "g", "e", ".", "V", "E", "R", "S", "I", "O", "N">>

\* [32]byte{}
ZeroChecksum == [j \in 1..32 |-> 0]

\* NewHeader with Root left as the snapshot id
NewHeaderRootIsID(indexID, now) ==
    [SnapshotID |-> indexID, Version |-> VERSION, CreationTime |-> now,
     CreationDuration |-> 0,
     Identity |-> [Identifier |-> [j \in 1..16 |-> 0], PublicKey |-> <<>>],
     Category |-> "default", Tags |-> <<>>, Context |-> <<>>,
     Importer |-> [Type |-> "", Origin |-> "", Directory |-> ""],
     Root |-> indexID, Index |-> ZeroChecksum, Metadata |-> ZeroChecksum,
     Statistics |-> ZeroChecksum, Errors |-> ZeroChecksum, Summary |-> "Summary{}"]

\* NewHeader(indexID), time.Now() returning now; the fields it does not name
\* (CreationDuration, Summary) are zero
NewHeader(indexID, now) ==
    [SnapshotID |-> indexID, Version |-> VERSION, CreationTime |-> now,
     CreationDuration |-> 0,
     Identity |-> [Identifier |-> [j \in 1..16 |-> 0], PublicKey |-> <<>>],
     Category |-> "default", Tags |-> <<>>, Context |-> <<>>,
     Importer |-> [Type |-> "", Origin |-> "", Directory |-> ""],
     Root |-> ZeroChecksum, Index |-> ZeroChecksum, Metadata |-> ZeroChecksum,
     Statistics |-> ZeroChecksum, Errors |-> ZeroChecksum, Summary |-> "Summary{}"]

\* SetContext replacing the value of a key that is there already
SetContextReplacing(h, key, value) ==
    IF \E i \in DOMAIN h.Context : h.Context[i].Key = key
    THEN [h EXCEPT !.Context = [i \in DOMAIN h.Context |->
                                   IF h.Context[i].Key = key THEN KeyValue(key, value)
                                   ELSE h.Context[i]]]
    ELSE [h EXCEPT !.Context = Append(@, KeyValue(key, value))]

\* h.SetContext(key, value)
SetContext(h, key, value) == [h EXCEPT !.Context = Append(@, KeyValue(key, value))]

\* h.GetContext(key): the loop over h.Context from its first pair
GetContext(h, key) ==
    LET RECURSIVE loop(_)
        loop(context) ==
            IF context = <<>> THEN ""
            ELSE IF Head(context).Key = key THEN Head(context).Value
            ELSE loop(Tail(context))
    IN loop(h.Context)

InitContext ==
    /\ fs = NewFilesystem
    /\ built = EmptyMap
    /\ nBuilt = EmptyMap
    /\ last = "new"
    /\ nLoads = 0
    /\ calls = 0
    /\ procs = <<>>
    /\ stream = NoStream
    /\ kdf = NoKdf
    /\ store = NoStore
    /\ query = NoQuery
    /\ hdr = [pc |-> "header", h |-> NewHeader(SnapshotIDs[1], Time(1, "Local")), sets |-> <<>>, last |-> [op |-> "NewHeader"]]

\* h.SetContext(key, value); sets keeps the calls made
SetContextCall ==
    /\ hdr.pc = "header"
    /\ Len(hdr.sets) < MaxContext
    /\ \E key \in ContextKeys, value \in ContextValues :
          hdr' = [hdr EXCEPT !.h = SetContext(@, key, value),
                             !.sets = Append(@, <<key, value>>),
                             !.last = [op |-> "SetContext"]]
    /\ UNCHANGED <<indexVars, stream, kdf, store, query>>

\* value := h.GetContext(key), for a key set or never set
GetContextCall ==
    /\ hdr.pc = "header"
    /\ \E key \in ContextKeys \cup {"k3"} :
          hdr' = [hdr EXCEPT !.last = [op |-> "GetContext", key |-> key,
                                       value |-> GetContext(hdr.h, key),
                                       before |-> hdr.h]]
    /\ UNCHANGED <<indexVars, stream, kdf, store, query>>

NextContext == SetContextCall \/ GetContextCall

SpecContext == InitContext /\ [][NextContext]_vars

\* C20: after any SetContext calls Context holds one pair per call, in call
\* order; GetContext(k) returns the value of the earliest pair with key k,
\* or "" when there is none, and leaves the header as it was.
C20_ContextAppendsFirstMatchWins ==
    hdr.pc = "header"
        => /\ Len(hdr.h.Context) = Len(hdr.sets)
           /\ \A i \in DOMAIN hdr.sets :
                 hdr.h.Context[i] = KeyValue(hdr.sets[i][1], hdr.sets[i][2])
           /\ hdr.last.op = "GetContext"
                 => LET matches == {i \in DOMAIN hdr.h.Context :
                                       hdr.h.Context[i].Key = hdr.last.key}
                    IN /\ hdr.last.before = hdr.h
                       /\ IF matches = {} THEN hdr.last.value = ""
                          ELSE \E i \in matches :
                                  /\ \A m \in matches : i <= m
                                  /\ hdr.last.value = hdr.h.Context[i].Value

\* GetContext has returned the first of two different values set for a key
C20_RepeatedKeyFirstWins ==
    /\ hdr.pc = "header"
    /\ hdr.last.op = "GetContext"
    /\ hdr.last.key = "k1"
    /\ hdr.sets = <<<<"k2", "v1">>, <<"k1", "v2">>, <<"k1", "v1">>>>
    /\ hdr.last.value = "v2"


\* ---------------------------------------------------------------------------
\* header: NewHeader, Serialize and NewFromBytes
\* ---------------------------------------------------------------------------

\* msgpack.Marshal(h): a map from the name of each field of Header to its
\* encoding. A byte array goes as bin, a string as str, an integer as int, a
\* slice as array, a struct as a map, and a time.Time as the timestamp
\* extension, which holds the instant and not the location
msgpackHeader(h) ==
    LET bin(b) == [type |-> "bin", v |-> b]
        str(x) == [type |-> "str", v |-> x]
        array(xs) == [type |-> "array", v |-> xs]
        map(pairs) == [type |-> "map", v |-> pairs]
    IN map(<<
        <<"SnapshotID", bin(h.SnapshotID)>>,
        <<"Version", str(h.Version)>>,
        <<"CreationTime", [type |-> "ext", id |-> -1, v |-> h.CreationTime.instant]>>,
        <<"CreationDuration", [type |-> "int", v |-> h.CreationDuration]>>,
        <<"Identity", map(<<<<"Identifier", bin(h.Identity.Identifier)>>,
                            <<"PublicKey", bin(h.Identity.PublicKey)>>>>)>>,
        <<"Category", str(h.Category)>>,
        <<"Tags", array([i \in DOMAIN h.Tags |-> str(h.Tags[i])])>>,
        <<"Context", array([i \in DOMAIN h.Context |->
                               map(<<<<"Key", str(h.Context[i].Key)>>,
                                     <<"Value", str(h.Context[i].Value)>>>>)])>>,
        <<"Importer", map(<<<<"Type", str(h.Importer.Type)>>,
                            <<"Origin", str(h.Importer.Origin)>>,
                            <<"Directory", str(h.Importer.Directory)>>>>)>>,
        <<"Root", bin(h.Root)>>,
        <<"Index", bin(h.Index)>>,
        <<"Metadata", bin(h.Metadata)>>,
        <<"Statistics", bin(h.Statistics)>>,
        <<"Errors", bin(h.Errors)>>,
        <<"Summary", str(h.Summary)>>>>)

\* Serialize with each context key written once, its first pair
SerializeFirstPairs(h) ==
    [err |-> "nil",
     serialized |-> msgpackHeader(
         [h EXCEPT !.Context = SelectSeq(@, LAMBDA kv : kv.Value = GetContext(h, kv.Key))])]

\* h.Serialize()
HeaderSerialize(h) == [err |-> "nil", serialized |-> msgpackHeader(h)]

\* NewFromBytes(serialized): msgpack.Unmarshal into a zero Header, each field
\* taken from the entry of its name; a timestamp is decoded in the local
\* location; bytes that are not a map give the error of Unmarshal
NewFromBytes(serialized) ==
    IF serialized.type # "map" THEN [err |-> "msgpack: invalid code", header |-> "nil"]
    ELSE LET field(pairs, name) == (CHOOSE i \in DOMAIN pairs : pairs[i][1] = name)
             get(pairs, name) == pairs[field(pairs, name)][2].v
             top == serialized.v
             strings(xs) == [i \in DOMAIN xs |-> xs[i].v]
         IN [err |-> "nil",
             header |->
               [SnapshotID |-> get(top, "SnapshotID"),
                Version |-> get(top, "Version"),
                CreationTime |-> Time(get(top, "CreationTime"), "Local"),
                CreationDuration |-> get(top, "CreationDuration"),
                Identity |-> [Identifier |-> get(get(top, "Identity"), "Identifier"),
                              PublicKey |-> get(get(top, "Identity"), "PublicKey")],
                Category |-> get(top, "Category"),
                Tags |-> strings(get(top, "Tags")),
                Context |-> [i \in DOMAIN get(top, "Context") |->
                                KeyValue(get(get(top, "Context")[i].v, "Key"),
                                         get(get(top, "Context")[i].v, "Value"))],
                Importer |-> [Type |-> get(get(top, "Importer"), "Type"),
                              Origin |-> get(get(top, "Importer"), "Origin"),
                              Directory |-> get(get(top, "Importer"), "Directory")],
                Root |-> get(top, "Root"),
                Index |-> get(top, "Index"),
                Metadata |-> get(top, "Metadata"),
                Statistics |-> get(top, "Statistics"),
                Errors |-> get(top, "Errors"),
                Summary |-> get(top, "Summary")]]


\* the instants and locations of time.Now(), and what the code that fills a
\* header assigns to its tags and digests
Nows == {Time(1, "Local"), Time(2, "UTC")}

HeaderFillings ==
    {[Tags |-> <<<<"y">>, <<"x">>, <<"y">>>>, Root |-> SnapshotIDs[1],
      Index |-> SnapshotIDs[2], Metadata |-> SnapshotIDs[1],
      Statistics |-> ZeroChecksum, Errors |-> SnapshotIDs[2]],
     [Tags |-> <<<<"x">>>>, Root |-> SnapshotIDs[2], Index |-> ZeroChecksum,
      Metadata |-> ZeroChecksum, Statistics |-> SnapshotIDs[1],
      Errors |-> ZeroChecksum]}

\* bytes that no Serialize has written
NotAHeader == [type |-> "str", v |-> <<>>]

InitHeader ==
    /\ fs = NewFilesystem
    /\ built = EmptyMap
    /\ nBuilt = EmptyMap
    /\ last = "new"
    /\ nLoads = 0
    /\ calls = 0
    /\ procs = <<>>
    /\ stream = NoStream
    /\ kdf = NoKdf
    /\ store = NoStore
    /\ query = NoQuery
    /\ hdr = [pc |-> "start"]

\* h := NewHeader(indexID)
NewHeaderCall ==
    /\ hdr.pc = "start"
    /\ \E indexID \in Checksums, now \in Nows :
          hdr' = [pc |-> "header", h |-> NewHeader(indexID, now), sets |-> <<>>,
                  last |-> [op |-> "NewHeader", indexID |-> indexID],
                  serialized |-> [type |-> "none"], source |-> "none",
                  loaded |-> [err |-> "none"]]
    /\ UNCHANGED <<indexVars, stream, kdf, store, query>>

\* the caller's assignments to h.Tags and to the digests of h
SetFieldsCall ==
    /\ hdr.pc = "header"
    /\ hdr.last.op = "NewHeader"
    /\ \E f \in HeaderFillings :
          hdr' = [hdr EXCEPT !.h = [@ EXCEPT !.Tags = f.Tags, !.Root = f.Root,
                                             !.Index = f.Index,
                                             !.Metadata = f.Metadata,
                                             !.Statistics = f.Statistics,
                                             !.Errors = f.Errors],
                             !.last = [op |-> "SetFields"]]
    /\ UNCHANGED <<indexVars, stream, kdf, store, query>>

\* serialized, err := h.Serialize(); source keeps h as it was serialized
SerializeCall ==
    /\ hdr.pc = "header"
    /\ LET r == HeaderSerialize(hdr.h)
       IN hdr' = [hdr EXCEPT !.serialized = r.serialized,
                             !.source = hdr.h,
                             !.loaded = [err |-> "none"],
                             !.last = [op |-> "Serialize", err |-> r.err]]
    /\ UNCHANGED <<indexVars, stream, kdf, store, query>>

\* header, err := NewFromBytes(serialized), of the bytes Serialize returned
\* or of other bytes
NewFromBytesCall ==
    /\ hdr.pc = "header"
    /\ hdr.serialized.type # "none"
    /\ \E ofSerialize \in BOOLEAN :
          hdr' = [hdr EXCEPT
                     !.loaded = NewFromBytes(IF ofSerialize THEN hdr.serialized
                                             ELSE NotAHeader),
                     !.last = [op |-> "NewFromBytes", ofSerialize |-> ofSerialize]]
    /\ UNCHANGED <<indexVars, stream, kdf, store, query>>

NextHeader ==
    \/ NewHeaderCall
    \/ SetFieldsCall
    \/ SetContextCall
    \/ SerializeCall
    \/ NewFromBytesCall

SpecHeader == InitHeader /\ [][NextHeader]_vars

\* a and b agree in every field, their creation times being the same instant
HeaderEqual(a, b) ==
    /\ DOMAIN a = DOMAIN b
    /\ \A name \in DOMAIN a \ {"CreationTime"} : a[name] = b[name]
    /\ a.CreationTime.instant = b.CreationTime.instant

LoadedOwnBytes ==
    hdr.pc = "header" /\ hdr.last.op = "NewFromBytes" /\ hdr.last.ofSerialize

C22_NewHeaderFields ==
    (hdr.pc = "header" /\ hdr.last.op = "NewHeader")
        => /\ hdr.h.SnapshotID = hdr.last.indexID
           /\ \A name \in {"Root", "Index", "Metadata", "Statistics", "Errors"} :
                 /\ Len(hdr.h[name]) = 32
                 /\ \A j \in 1..32 : hdr.h[name][j] = 0
           /\ hdr.h.Category = "default"
           /\ Len(hdr.h.Tags) = 0
           /\ Len(hdr.h.Context) = 0
           /\ hdr.h.Version = VERSION

\* NewHeader has returned for an id that is not all zero
C22_NewHeaderReturned ==
    /\ hdr.pc = "header"
    /\ hdr.last.op = "NewHeader"
    /\ hdr.h.SnapshotID = hdr.last.indexID
    /\ \E j \in 1..32 : hdr.last.indexID[j] # 0


\* ---------------------------------------------------------------------------
\* plakar create
\* ---------------------------------------------------------------------------

MaxPrompts == 2

\* strings.ToUpper(s)
ToUpper(s) ==
    LET lower == <<"a", "b", "c", "d", "e", "f", "g", "h", "i", "j", "k", "l", "m",
                   "n", "o", "p", "q", "r", "s", "t", "u", "v", "w", "x", "y", "z">>
        upper == <<"A", "B", "C", "D", "E", "F", "G", "H", "I", "J", "K", "L", "M",
                   "N", "O", "P", "Q", "R", "S", "T", "U", "V", "W", "X", "Y", "Z">>
    IN [k \in DOMAIN s |->
           IF \E c \in DOMAIN lower : lower[c] = s[k]
           THEN upper[CHOOSE c \in DOMAIN lower : lower[c] = s[k]]
           ELSE s[k]]

\* the defaults of the -compression and -hashing flags, which the lookups
\* of the compression and hashing packages know
DefaultCompression == <<"L", "Z", "4">>
DefaultHashing == <<"S", "H", "A", "2", "5", "6">>

\* compression.LookupDefaultConfiguration(name) and
\* hashing.LookupDefaultConfiguration(name): a configuration or an error
LookupDefaultConfiguration(known, name) ==
    IF name = known THEN [err |-> "nil", configuration |-> name]
    ELSE [err |-> "unknown algorithm", configuration |-> "nil"]

\* filepath.Join(ctx.GetHomeDir(), ".plakar")
HomeRepository == "~/.plakar"

\* the flags and arguments of the command line, the environment, the key of
\* the context, and the locations that hold a repository before the command
CreateNames == {DefaultCompression, <<"l", "z", "4">>, <<"s", "h", "a", "2", "5", "6">>,
                DefaultHashing}

CreateArgs == {<<>>, <<"r1">>, <<"r1", "r2">>}

NewCreate(noencryption, nocompression, hashing, compression, args, env, keyFromFile, repos) ==
    [pc |-> "flags", opt_noencryption |-> noencryption,
     opt_nocompression |-> nocompression, opt_hashing |-> hashing,
     opt_compression |-> compression, args |-> args,
     envPassphrase |-> env, keyFromFile |-> keyFromFile,
     Compression |-> "nil", Hashing |-> "nil", Encryption |-> [Algorithm |-> "nil"],
     passphrase |-> <<>>, prompts |-> 0, secretFailed |-> FALSE,
     before |-> repos, repos |-> repos, creates |-> <<>>, exit |-> -1]

InitCreate ==
    /\ fs = NewFilesystem
    /\ built = EmptyMap
    /\ nBuilt = EmptyMap
    /\ last = "new"
    /\ nLoads = 0
    /\ calls = 0
    /\ procs = <<>>
    /\ stream = NoStream
    /\ kdf = NoKdf
    /\ \E noencryption, nocompression \in BOOLEAN,
          hashing, compression \in CreateNames, args \in CreateArgs,
          env \in {<<>>, <<1>>}, keyFromFile \in {<<>>, <<2>>},
          repos \in SUBSET {HomeRepository, "r1"} :
          store = NewCreate(noencryption, nocompression, hashing, compression,
                            args, env, keyFromFile, repos)
    /\ query = NoQuery
    /\ hdr = NoHdr

\* the command returns code
Return(st, code) == [st EXCEPT !.pc = "exit", !.exit = code]

\* from flags.Parse to the test of opt_noencryption: the two lookups
CreateFlags ==
    /\ store.pc = "flags"
    /\ LET compression == LookupDefaultConfiguration(DefaultCompression,
                                                     ToUpper(store.opt_compression))
           hashing == LookupDefaultConfiguration(DefaultHashing,
                                                 ToUpper(store.opt_hashing))
       IN store' =
            IF ~store.opt_nocompression /\ compression.err # "nil" THEN Return(store, 1)
            ELSE IF hashing.err # "nil" THEN Return(store, 1)
            ELSE [store EXCEPT
                     !.Compression = IF store.opt_nocompression THEN "nil"
                                     ELSE compression.configuration,
                     !.Hashing = hashing.configuration,
                     !.pc = IF store.opt_noencryption THEN "create" ELSE "passphrase"]
    /\ UNCHANGED <<indexVars, stream, kdf, query, hdr>>

\* the choice of the passphrase, asking at the terminal whatever the
\* environment holds when there is no key file
CreatePassphraseNoEnv ==
    /\ store.pc = "passphrase"
    /\ store' = IF store.keyFromFile = <<>>
                THEN [store EXCEPT !.pc = "prompt"]
                ELSE [store EXCEPT !.passphrase = store.keyFromFile, !.pc = "secret"]
    /\ UNCHANGED <<indexVars, stream, kdf, query, hdr>>

\* the choice of the passphrase: the key file, else PLAKAR_PASSPHRASE, else
\* the loop that asks for it
CreatePassphrase ==
    /\ store.pc = "passphrase"
    /\ store' = IF store.keyFromFile = <<>>
                THEN IF store.envPassphrase # <<>>
                     THEN [store EXCEPT !.passphrase = store.envPassphrase, !.pc = "secret"]
                     ELSE [store EXCEPT !.pc = "prompt"]
                ELSE [store EXCEPT !.passphrase = store.keyFromFile, !.pc = "secret"]
    /\ UNCHANGED <<indexVars, stream, kdf, query, hdr>>

\* utils.GetPassphraseConfirm("repository") returns an error: continue
CreatePromptError ==
    /\ store.pc = "prompt"
    /\ store.prompts < MaxPrompts
    /\ store' = [store EXCEPT !.prompts = @ + 1]
    /\ UNCHANGED <<indexVars, stream, kdf, query, hdr>>

\* utils.GetPassphraseConfirm("repository") returns what was typed: break
CreatePrompt ==
    /\ store.pc = "prompt"
    /\ \E tmp \in {<<>>, <<1, 2>>} :
          store' = [store EXCEPT !.prompts = @ + 1, !.passphrase = tmp, !.pc = "secret"]
    /\ UNCHANGED <<indexVars, stream, kdf, query, hdr>>

\* encryption.BuildSecretFromPassphrase(passphrase): rand.Read fails, or
\* fills the salt
CreateSecret ==
    /\ store.pc = "secret"
    /\ \/ store' = Return([store EXCEPT !.secretFailed = TRUE], 1)
       \/ \E salt \in Salts :
             store' = [store EXCEPT
                          !.Encryption = [Algorithm |-> "AES256-GCM",
                                          Key |-> BuildSecretFromPassphrase(store.passphrase, salt)],
                          !.pc = "create"]
    /\ UNCHANGED <<indexVars, stream, kdf, query, hdr>>

\* storage.Create(ctx, location, configuration): an error when the location
\* holds a repository, else the repository is made there
Create(st, location) ==
    IF location \in st.repos
    THEN [st EXCEPT !.creates = Append(@, [location |-> location, err |-> "exists"])]
    ELSE [st EXCEPT !.creates = Append(@, [location |-> location, err |-> "nil"]),
                    !.repos = @ \cup {location}]

\* the switch on flags.NArg() with storage.Create called for any arguments
CreateStorageFirstArg ==
    /\ store.pc = "create"
    /\ LET location == IF store.args = <<>> THEN HomeRepository ELSE store.args[1]
           created == Create(store, location)
       IN store' = Return(created,
                          IF created.creates[Len(created.creates)].err # "nil" THEN 1 ELSE 0)
    /\ UNCHANGED <<indexVars, stream, kdf, query, hdr>>

\* the switch on flags.NArg(): storage.Create, and the return
CreateStorage ==
    /\ store.pc = "create"
    /\ store' =
         IF Len(store.args) > 1 THEN Return(store, 1)
         ELSE LET location == IF store.args = <<>> THEN HomeRepository ELSE store.args[1]
                  created == Create(store, location)
              IN Return(created,
                        IF created.creates[Len(created.creates)].err # "nil" THEN 1 ELSE 0)
    /\ UNCHANGED <<indexVars, stream, kdf, query, hdr>>

NextCreate ==
    \/ CreateFlags
    \/ CreatePassphrase
    \/ CreatePromptError
    \/ CreatePrompt
    \/ CreateSecret
    \/ CreateStorage

SpecCreate == InitCreate /\ [][NextCreate]_vars

\* storage.Create was called once and returned no error
CreatedOnce == Len(store.creates) = 1 /\ store.creates[1].err = "nil"

\* nothing was created: storage.Create was not called
NothingCreated == store.exit # 0 /\ store.creates = <<>> /\ store.repos = store.before

UnknownCompression == ToUpper(store.opt_compression) # DefaultCompression
UnknownHashing == ToUpper(store.opt_hashing) # DefaultHashing

\* C23 as stated: cmd_create returns 0 exactly when it called storage.Create
\* once and the call succeeded; with an unknown compression or hashing name,
\* a failed secret derivation or more than one argument it returns non-zero
\* and storage.Create is never called.
C23_ZeroIffCreated ==
    store.pc = "exit"
        => /\ store.exit = 0 <=> CreatedOnce
           /\ (\/ UnknownCompression
               \/ UnknownHashing
               \/ store.secretFailed
               \/ Len(store.args) > 1) => NothingCreated

\* C23 amended: the same, the compression name counting only when
\* compression is not disabled by -no-compression.
C23_ZeroIffCreatedUnlessDisabled ==
    store.pc = "exit"
        => /\ store.exit = 0 <=> CreatedOnce
           /\ (\/ ~store.opt_nocompression /\ UnknownCompression
               \/ UnknownHashing
               \/ store.secretFailed
               \/ Len(store.args) > 1) => NothingCreated

\* the command has returned 1 for two arguments after deriving a secret,
\* without calling storage.Create
C23_TooManyParameters ==
    /\ store.pc = "exit"
    /\ store.exit = 1
    /\ Len(store.args) = 2
    /\ store.Encryption.Algorithm = "AES256-GCM"
    /\ NothingCreated

\* C24: with encryption enabled and PLAKAR_PASSPHRASE not empty the prompt is
\* never called; it is called only when neither the key file nor the
\* environment gives a passphrase.
C24_EnvironmentBypassesPrompt ==
    /\ (~store.opt_noencryption /\ store.envPassphrase # <<>>)
          => store.prompts = 0 /\ store.pc # "prompt"
    /\ (store.prompts > 0 \/ store.pc = "prompt")
          => /\ ~store.opt_noencryption
             /\ store.keyFromFile = <<>>
             /\ store.envPassphrase = <<>>

\* the secret has been built from the passphrase of the environment, no key
\* file being given
C24_SecretFromEnvironment ==
    /\ store.pc = "create"
    /\ store.keyFromFile = <<>>
    /\ store.envPassphrase = <<1>>
    /\ store.passphrase = store.envPassphrase
    /\ store.Encryption.Algorithm = "AES256-GCM"
    /\ store.prompts = 0


\* ---------------------------------------------------------------------------
\* EncryptStream: nonces, chunk sizes, and ciphertexts cut or rearranged
\* ---------------------------------------------------------------------------

\* the seals of chunks whose output is in the ciphertext st.wire, by the
\* position of the first byte of their tag: the fourth and later writes are
\* the sealed chunks (the second is the subkey, the one seal under the
\* master key)
ChunkSeals(st) ==
    LET RECURSIVE end(_)
        end(c) == IF c = 0 THEN 0 ELSE st.writes[c] + end(c - 1)
    IN {end(c) - Overhead + 1 : c \in 4..Len(st.writes)}

\* C25: every seal under one key uses a nonce no other seal under that key
\* uses: the seals of the chunks of a stream, all under its subkey, have
\* pairwise distinct (key, nonce) pairs.
C25_NoncesNeverReused ==
    (stream.pc \in {"encrypt", "stored"} /\ ~stream.tampered)
        => \A p, q \in ChunkSeals(stream) :
              p # q => <<stream.wire[p].k, stream.wire[p].n>>
                          # <<stream.wire[q].k, stream.wire[q].n>>

\* C26: EncryptStream seals the plaintext in chunks of exactly chunkSize
\* bytes, only the last being shorter: every sealed chunk written but the
\* last has chunkSize + Overhead bytes.
C26_ChunksAreFull ==
    (stream.pc \in {"encrypt", "stored"} /\ ~stream.tampered)
        => \A c \in 4..(Len(stream.writes) - 1) :
              stream.writes[c] = chunkSize + Overhead

\* the ciphertext without its last c sealed chunks
WithoutChunks(st, c) ==
    LET kept == SubSeq(st.writes, 1, Len(st.writes) - c)
        RECURSIVE size(_)
        size(ws) == IF ws = <<>> THEN 0 ELSE Head(ws) + size(Tail(ws))
    IN [st EXCEPT !.wire = SubSeq(@, 1, size(kept)), !.writes = kept]

\* the last sealed chunk of the ciphertext
LastChunk(st) ==
    SubSeq(st.wire, Len(st.wire) - st.writes[Len(st.writes)] + 1, Len(st.wire))

\* somebody removes the last sealed chunk of the stored ciphertext
DropLastChunk ==
    /\ stream.pc = "stored"
    /\ ~stream.tampered
    /\ Len(stream.writes) > 3
    /\ stream' = [WithoutChunks(stream, 1) EXCEPT !.tampered = TRUE]
    /\ UNCHANGED <<indexVars, kdf, store, query, hdr>>

\* somebody appends a copy of the last sealed chunk
RepeatLastChunk ==
    /\ stream.pc = "stored"
    /\ ~stream.tampered
    /\ Len(stream.writes) > 3
    /\ stream' = [stream EXCEPT !.wire = @ \o LastChunk(stream),
                                !.writes = Append(@, stream.writes[Len(stream.writes)]),
                                !.tampered = TRUE]
    /\ UNCHANGED <<indexVars, kdf, store, query, hdr>>

\* somebody exchanges the last two sealed chunks
SwapLastChunks ==
    /\ stream.pc = "stored"
    /\ ~stream.tampered
    /\ Len(stream.writes) > 4
    /\ LET n == Len(stream.writes)
           front == WithoutChunks(stream, 2)
           before == LastChunk(WithoutChunks(stream, 1))
       IN stream' = [stream EXCEPT
                        !.wire = front.wire \o LastChunk(stream) \o before,
                        !.writes = front.writes \o <<stream.writes[n], stream.writes[n - 1]>>,
                        !.tampered = TRUE]
    /\ UNCHANGED <<indexVars, kdf, store, query, hdr>>

NextStreamCut ==
    \/ EncryptChunk
    \/ EncryptClose
    \/ DropLastChunk
    \/ RepeatLastChunk
    \/ SwapLastChunks
    \/ DecryptStream
    \/ DecryptChunk
    \/ DecryptFail
    \/ DecryptClose

SpecStreamCut == InitStream /\ [][NextStreamCut]_vars

\* C27: the reader of DecryptStream reaches end-of-stream without error only
\* if it has delivered the entire plaintext given to EncryptStream: a
\* ciphertext whose last sealed chunks were removed, repeated or exchanged
\* ends in an error.
C27_EofOnlyAfterWholePlaintext ==
    (stream.pc = "done" /\ stream.tampered /\ stream.result = "eof")
        => stream.out = stream.plain

-----------------------------------------------------------------------------
(* The total size: addInode while building, _reindex after a load.           *)

\* Size()
Size(f) == f.totalSize

\* the sum of the sizes of the records of a map of file infos
SumOfSizes(infos) ==
    LET RECURSIVE sum(_)
        sum(S) == IF S = {} THEN 0
                  ELSE LET k == CHOOSE k \in S : TRUE
                       IN infos[k].size + sum(S \ {k})
    IN sum(DOMAIN infos)

\* buildTree calls, and loads of what they built
NextBuild == BuildTreeCall \/ LoadCall

SpecBuild == InitSeq /\ [][NextBuild]_vars

\* every built path hangs on the inode record of its identity
SharesInodeRecord(p) ==
    /\ NodeOf(p) # NotFound
    /\ fs.nodes[NodeOf(p)].Inode = InodeKey(built[p])
    /\ InodeKey(built[p]) \in DOMAIN fs.Inodes

\* C28: a step never changes an inode record that is already stored (the
\* first record of a "dev,ino" key wins), every built path hangs on the one
\* record of its key, and before any reload Size() is the sum of the sizes of
\* the stored records, one per distinct key built.
C28_FirstRecordWins ==
    /\ [](nLoads = 0 =>
            /\ Size(fs) = SumOfSizes(fs.Inodes)
            /\ \A p \in DOMAIN built : SharesInodeRecord(p))
    /\ [][\A key \in DOMAIN fs.Inodes :
             key \in DOMAIN fs'.Inodes /\ fs'.Inodes[key] = fs.Inodes[key]]_vars

\* a file was built a second time after it grew: its record and the total
\* size are those of the first build
C28_BuiltAgainAfterGrowing ==
    /\ nLoads = 0
    /\ \E p \in DOMAIN built :
          /\ InodeKey(built[p]) \in DOMAIN fs.Inodes
          /\ fs.Inodes[InodeKey(built[p])].size < built[p].size
          /\ Size(fs) < built[p].size

\* C29: after NewFilesystemFromBytes has loaded and reindexed a serialized
\* index, Size() is the sum of the sizes of all the statInfo entries that the
\* walk of reindex rebuilt, directories and non-directories alike.
C29_SizeAfterLoadCountsEveryEntry ==
    last = "load" => Size(fs) = SumOfSizes(fs.statInfo)

-----------------------------------------------------------------------------
(* LookupInodeForFile and LookupInodeForDirectory, on an index that         *)
(* buildTree calls have made and that may have been serialized and loaded.   *)

\* the nil *FileInfo
NilFileInfo == [nil |-> TRUE]

\* LookupInodeForFile(pathname): the entry of statInfo when it is regular
LookupInodeForFile(f, pathname) ==
    LET path == LookupPath(pathname)
    IN IF path \notin DOMAIN f.statInfo \/ ~IsRegular(f.statInfo[path])
       THEN [fileinfo |-> NilFileInfo, exists |-> FALSE]
       ELSE [fileinfo |-> f.statInfo[path], exists |-> TRUE]

\* LookupInodeForDirectory(pathname): the entry of statInfo when it is a directory
LookupInodeForDirectory(f, pathname) ==
    LET path == LookupPath(pathname)
    IN IF path \notin DOMAIN f.statInfo \/ ~IsDir(f.statInfo[path])
       THEN [fileinfo |-> NilFileInfo, exists |-> FALSE]
       ELSE [fileinfo |-> f.statInfo[path], exists |-> TRUE]

LookupInodeForFileCall ==
    /\ \E pathname \in LookupPaths :
          query' = [pc |-> "returned", op |-> "LookupInodeForFile", pathname |-> pathname,
                    at |-> calls,
                    fileinfo |-> LookupInodeForFile(fs, pathname).fileinfo,
                    exists |-> LookupInodeForFile(fs, pathname).exists]
    /\ UNCHANGED <<indexVars, stream, kdf, store, hdr>>

LookupInodeForDirectoryCall ==
    /\ \E pathname \in LookupPaths :
          query' = [pc |-> "returned", op |-> "LookupInodeForDirectory", pathname |-> pathname,
                    at |-> calls,
                    fileinfo |-> LookupInodeForDirectory(fs, pathname).fileinfo,
                    exists |-> LookupInodeForDirectory(fs, pathname).exists]
    /\ UNCHANGED <<indexVars, stream, kdf, store, hdr>>

\* the index is serialized and loaded, once
ReloadCall ==
    /\ nLoads = 0
    /\ \E inverse \in InverseMaps(fs.Pathnames) :
          fs' = NewFilesystemFromBytes(Serialize(fs), inverse)
    /\ last' = "load"
    /\ nLoads' = nLoads + 1
    /\ calls' = calls + 1
    /\ UNCHANGED <<built, nBuilt, procs, notIndexVars>>

NextInode ==
    \/ LookupInodeForFileCall
    \/ LookupInodeForDirectoryCall
    \/ ReloadCall

SpecInode == InitLookup /\ [][NextInode]_vars

\* Lookup(p) resolves p in the tree and its node has an inode record
ResolvesToRecord(p) ==
    /\ Lookup(fs, p) # NotFound
    /\ fs.nodes[Lookup(fs, p)].Inode \in DOMAIN fs.Inodes

\* C30: LookupInodeForFile(p) returns a file info exactly when Lookup(p)
\* resolves p in the tree and the inode record of that node is a regular
\* file, LookupInodeForDirectory(p) exactly when it is a directory, and for
\* no path do both succeed.
C30_InodeLookupsFollowLookup ==
    /\ Returned("LookupInodeForFile") =>
          (query.exists <=>
              /\ ResolvesToRecord(query.pathname)
              /\ IsRegular(fs.Inodes[fs.nodes[Lookup(fs, query.pathname)].Inode]))
    /\ Returned("LookupInodeForDirectory") =>
          (query.exists <=>
              /\ ResolvesToRecord(query.pathname)
              /\ IsDir(fs.Inodes[fs.nodes[Lookup(fs, query.pathname)].Inode]))
    /\ \A p \in LookupPaths :
          ~(LookupInodeForFile(fs, p).exists /\ LookupInodeForDirectory(fs, p).exists)

-----------------------------------------------------------------------------
(* The S3 backend: chunks and object markers, checked and listed.            *)

ObjectPrefix == <<"O", "B", "J", "E", "C", "T">>

ObjectKeyOf == [checksum \in Checksums |-> ChecksumKey(ObjectPrefix, checksum)]

\* what minioClient.ListObjects sends on its channel with the zero
\* ListObjectsOptions: the keys of the bucket cut after their first "/"
ListObjectsTop(s) ==
    LET top(k) == IF \E i \in DOMAIN k : k[i] = "/"
                  THEN SubSeq(k, 1, CHOOSE i \in DOMAIN k :
                                       k[i] = "/" /\ \A j \in 1..(i - 1) : k[j] # "/")
                  ELSE k
    IN IF ~s.bucket THEN <<[Key |-> <<>>, Err |-> TRUE]>>
       ELSE InSomeOrder({[Key |-> top(k), Err |-> FALSE] : k \in DOMAIN s.objects})

\* var key [32]byte; copy(key[:], str)
CopyKey(str) == [j \in 1..32 |-> IF j <= Len(str) THEN str[j] ELSE 0]

\* the listing of GetChunks and GetObjects: the keys that begin with prefix
\* and ":", without that beginning
ListColon(s, prefix) ==
    LET kept == SelectSeq(ListObjectsTop(s),
                          LAMBDA object : HasPrefix(object.Key, prefix \o <<":">>))
    IN [err |-> FALSE,
        ret |-> [i \in 1..Len(kept) |->
                    CopyKey(SubSeq(kept[i].Key, Len(prefix) + 2, Len(kept[i].Key)))]]

\* S3Repository.GetChunks
GetChunks(s) == ListColon(s, ChunkPrefix)

\* S3Repository.GetObjects
GetObjects(s) == ListColon(s, ObjectPrefix)

\* CheckChunk and CheckObject: BucketExists, then GetObject and Stat of key
CheckKey(s, key) ==
    IF ~s.bucket THEN [err |-> FALSE, exists |-> FALSE]
    ELSE [err |-> FALSE, exists |-> key \in DOMAIN s.objects]

CheckChunkCall ==
    /\ \E checksum \in Checksums :
          LET r == CheckKey(store, ChunkKeyOf[checksum])
          IN store' = [store EXCEPT !.last = [op |-> "Check", namespace |-> "CHUNK",
                                              id |-> checksum, err |-> r.err, exists |-> r.exists]]
    /\ UNCHANGED <<indexVars, stream, kdf, query, hdr>>

CheckObjectCall ==
    /\ \E checksum \in Checksums :
          LET r == CheckKey(store, ObjectKeyOf[checksum])
          IN store' = [store EXCEPT !.last = [op |-> "Check", namespace |-> "OBJECT",
                                              id |-> checksum, err |-> r.err, exists |-> r.exists]]
    /\ UNCHANGED <<indexVars, stream, kdf, query, hdr>>

\* S3Repository.PutObject: an empty object marks the checksum
PutObjectCall ==
    /\ \E checksum \in Checksums :
          LET r == PutObject(store, ObjectKeyOf[checksum], "")
          IN store' = [Traced(r, "OBJECT", checksum, "")
                          EXCEPT !.last = [op |-> "PutObject", err |-> r.err]]
    /\ UNCHANGED <<indexVars, stream, kdf, query, hdr>>

DeleteObjectCall ==
    /\ \E checksum \in Checksums :
          LET r == RemoveObject(store, ObjectKeyOf[checksum])
          IN store' = [Traced(r, "OBJECT", checksum, "gone")
                          EXCEPT !.last = [op |-> "DeleteObject", err |-> r.err]]
    /\ UNCHANGED <<indexVars, stream, kdf, query, hdr>>

GetChunksCall ==
    /\ store' = [store EXCEPT !.last = [op |-> "List", namespace |-> "CHUNK",
                                        err |-> GetChunks(store).err,
                                        ret |-> GetChunks(store).ret]]
    /\ UNCHANGED <<indexVars, stream, kdf, query, hdr>>

GetObjectsCall ==
    /\ store' = [store EXCEPT !.last = [op |-> "List", namespace |-> "OBJECT",
                                        err |-> GetObjects(store).err,
                                        ret |-> GetObjects(store).ret]]
    /\ UNCHANGED <<indexVars, stream, kdf, query, hdr>>

\* puts, deletes, gets, checks and listings of chunks and object markers
NextChunks ==
    \/ S3CreateCall
    \/ PutChunkCall
    \/ DeleteChunkCall
    \/ GetChunkCall
    \/ CheckChunkCall
    \/ GetChunksCall
    \/ PutObjectCall
    \/ DeleteObjectCall
    \/ CheckObjectCall
    \/ GetObjectsCall

SpecChunks == InitStore /\ [][NextChunks]_vars

\* a get or a check of a chunk or marker answers by what was put and not
\* deleted since
GetsAndChecksFollowPuts ==
    /\ (store.last.op = "Get" /\ <<"CHUNK", store.last.id>> \in DOMAIN store.put) =>
          ~store.last.err /\ store.last.data = store.put[<<"CHUNK", store.last.id>>]
    /\ store.last.op = "Check" =>
          /\ ~store.last.err
          /\ store.last.exists <=> store.last.id \in Present(store.last.namespace)

\* C31: a chunk written by PutChunk and not deleted since is returned by
\* GetChunk, reported present by CheckChunk and enumerated by GetChunks; an
\* object marked by PutObject and not deleted since is reported by
\* CheckObject and enumerated by GetObjects.
C31_WrittenIsFoundAndListed ==
    /\ GetsAndChecksFollowPuts
    /\ store.last.op = "List" =>
          /\ ~store.last.err
          /\ Present(store.last.namespace)
                \subseteq {store.last.ret[i] : i \in DOMAIN store.last.ret}

-----------------------------------------------------------------------------
(* Open and Configuration of the S3 backend and of the null backend.         *)

\* the zero RepositoryConfig, which Configuration() returns before an Open
\* has set repository.config
NoConfig == [zero |-> TRUE]

\* S3Repository.Open: BucketExists, then GetObject and Stat of CONFIG, then
\* Unmarshal of what was read
S3Open(s) ==
    IF ~s.bucket THEN [err |-> TRUE, config |-> NoConfig]
    ELSE IF ConfigKey \notin DOMAIN s.objects THEN [err |-> TRUE, config |-> NoConfig]
    ELSE [err |-> FALSE, config |-> UnmarshalConfig(s.objects[ConfigKey])]

\* Open of the null backend: a configuration made on the spot, with the
\* repository id that uuid.NewRandom() gives and the time of the call
NullOpen(s, id, now) ==
    [err |-> FALSE,
     config |-> [Version |-> "VERSION", RepositoryID |-> id, CreationTime |-> now,
                 Hashing |-> "sha256", Chunking |-> "fastcdc",
                 ChunkingMin |-> 512 * 1024, ChunkingNormal |-> 1024 * 1024,
                 ChunkingMax |-> 8192 * 1024]]

\* the configuration that the Open before this one reported for backend
PreviousOpen(backend) ==
    IF store.last.op = "Open" /\ store.last.backend = backend /\ ~store.last.err
    THEN <<store.last.config>>
    ELSE <<>>

\* Open of the S3 backend on a fresh S3Repository, then Configuration()
S3OpenCall ==
    /\ LET r == S3Open(store)
       IN store' = [store EXCEPT !.last = [op |-> "Open", backend |-> "s3", err |-> r.err,
                                           config |-> r.config,
                                           previous |-> PreviousOpen("s3")]]
    /\ UNCHANGED <<indexVars, stream, kdf, query, hdr>>

\* Open of the null backend on a fresh Repository, then Configuration()
NullOpenCall ==
    /\ \E id \in UUIDs, now \in Nows :
          LET r == NullOpen(store, id, now)
          IN store' = [store EXCEPT !.last = [op |-> "Open", backend |-> "null", err |-> r.err,
                                              config |-> r.config,
                                              previous |-> PreviousOpen("null")]]
    /\ UNCHANGED <<indexVars, stream, kdf, query, hdr>>

NextOpen ==
    \/ S3CreateCall
    \/ NullCreateCall
    \/ S3OpenCall
    \/ NullOpenCall

SpecOpen == InitStore /\ [][NextOpen]_vars

\* two configurations are equal: every field is, the creation times as instants
ConfigEqual(a, b) ==
    /\ \A field \in (DOMAIN a) \ {"CreationTime"} : a[field] = b[field]
    /\ a.CreationTime.instant = b.CreationTime.instant

\* what an Open of backend that returned nil must have reported
OpenFollowsCreate(backend) ==
    (store.last.op = "Open" /\ store.last.backend = backend /\ ~store.last.err) =>
        /\ store.created[backend] # <<>>
               => ConfigEqual(store.last.config, store.created[backend][1])
        /\ store.last.previous # <<>>
               => store.last.config.RepositoryID = store.last.previous[1].RepositoryID

\* C32: for the S3 backend and for the null backend, Configuration() after
\* an Open of a location equals the configuration that Create stored there,
\* and two Opens of the same repository report the same repository id.
C32_OpenReportsCreatedConfiguration ==
    OpenFollowsCreate("s3") /\ OpenFollowsCreate("null")

-----------------------------------------------------------------------------
(* The locks of the index: buildTree calls and a LookupChildren call, each   *)
(* Lock and each Unlock a step of its own.                                   *)

\* the mutexes: muInodes, muPathnames and muStat of the Filesystem, and the
\* muNode of each node
Mutex(name) == [mu |-> name]
NodeMutex(p) == [mu |-> "muNode", node |-> p]
NoMutex == [mu |-> "none"]

\* the mutex under which a buildTree call, standing on node p, makes the step pc
BuilderMutex(pc, p) ==
    CASE pc = "addInode" -> Mutex("muInodes")
      [] pc = "addPathname" -> Mutex("muPathnames")
      [] pc \in {"read", "create", "setInode"} -> NodeMutex(p)
      [] pc = "setStat" -> Mutex("muStat")
      [] OTHER -> NoMutex

\* the mutex under which a LookupChildren call makes the step pc
ReaderMutex(pc, p) ==
    CASE pc = "Lookup" -> NodeMutex(p)
      [] pc = "inode" -> Mutex("muInodes")
      [] OTHER -> NoMutex

\* nobody holds mutex
Free(mutex) ==
    /\ \A i \in DOMAIN procs : mutex \notin procs[i].holds
    /\ mutex \notin query.holds

\* what a buildTree call does between the Lock and the Unlock of its step
BuilderSection(f, b) ==
    CASE b.pc = "addInode" ->
           [fs |-> addInode(f, b.fileinfo),
            b |-> [b EXCEPT !.inodeKey = InodeKey(b.fileinfo), !.pc = "addPathname"]]
      [] b.pc = "addPathname" ->
           LET path == BuildPath(b.pathname)
           IN [fs |-> addPathname(f, path),
               b |-> [b EXCEPT !.path = path, !.atoms = AtomsOf(path), !.p = Root,
                               !.pc = AfterAtoms(AtomsOf(path))]]
      [] b.pc = "read" ->
           LET tmp == ChildOf(f.nodes, b.p, Head(b.atoms))
           IN [fs |-> f,
               b |-> IF tmp = NotFound THEN [b EXCEPT !.pc = "create"]
                     ELSE [b EXCEPT !.p = tmp, !.atoms = Tail(@),
                                    !.pc = AfterAtoms(Tail(b.atoms))]]
      [] b.pc = "create" ->
           [fs |-> [f EXCEPT !.nodes = CreateChild(@, b.p, Head(b.atoms))],
            b |-> [b EXCEPT !.p = Len(f.nodes) + 1, !.atoms = Tail(@),
                            !.pc = AfterAtoms(Tail(b.atoms))]]
      [] b.pc = "setInode" ->
           [fs |-> [f EXCEPT !.nodes = SetInode(@, b.p, b.inodeKey)],
            b |-> [b EXCEPT !.pc = "setStat"]]
      [] b.pc = "setStat" ->
           [fs |-> [f EXCEPT !.statInfo = Put(@, b.path, b.fileinfo)],
            b |-> [b EXCEPT !.pc = "count"]]

\* what a LookupChildren call does between the Lock and the Unlock of its step
ReaderSection(f, r) ==
    CASE r.pc = "Lookup" ->
           LET tmp == ChildOf(f.nodes, r.p, Head(r.atoms))
           IN IF tmp = NotFound THEN [r EXCEPT !.pc = "returned", !.err = "ErrNotExist"]
              ELSE [r EXCEPT !.p = tmp, !.atoms = Tail(@),
                             !.pc = IF Tail(r.atoms) = <<>> THEN "inode" ELSE "Lookup"]
      [] r.pc = "inode" ->
           IF ~IsDir(InodeRecord(f, f.nodes[r.p].Inode))
           THEN [r EXCEPT !.pc = "returned", !.err = "ErrInvalid"]
           ELSE [r EXCEPT !.pc = "range", !.began = DOMAIN f.nodes[r.p].Children]

\* mu.Unlock() written as a defer: the mutex stays held until the call returns
UnlockDeferred(holds, mutex, pc) ==
    IF pc \in {"done", "returned"} THEN {} ELSE holds

\* mu.Unlock()
Unlock(holds, mutex, pc) == holds \ {mutex}

InitLocks ==
    /\ fs = NewFilesystem
    /\ built = EmptyMap
    /\ nBuilt = EmptyMap
    /\ last = "new"
    /\ nLoads = 0
    /\ calls = 0
    /\ \E b \in [1..NBuilders -> RacePaths \X RaceInfos] :
          /\ \A i, j \in 1..NBuilders : i # j => b[i][1] # b[j][1]
          /\ procs = [i \in 1..NBuilders |->
                         [x \in DOMAIN NewBuilder(b[i][1], b[i][2]) \cup {"holds"} |->
                             IF x = "holds" THEN {} ELSE NewBuilder(b[i][1], b[i][2])[x]]]
    /\ stream = NoStream
    /\ kdf = NoKdf
    /\ store = NoStore
    /\ \E pathname \in ReaderPaths :
          query = [x \in DOMAIN NewReader(pathname) \cup {"holds"} |->
                      IF x = "holds" THEN {} ELSE NewReader(pathname)[x]]
    /\ hdr = NoHdr

\* mu.Lock() of a buildTree call: it waits until the mutex is free
BuilderLock(i) ==
    /\ BuilderMutex(procs[i].pc, procs[i].p) # NoMutex
    /\ BuilderMutex(procs[i].pc, procs[i].p) \notin procs[i].holds
    /\ Free(BuilderMutex(procs[i].pc, procs[i].p))
    /\ procs' = [procs EXCEPT ![i].holds = @ \cup {BuilderMutex(procs[i].pc, procs[i].p)}]
    /\ UNCHANGED <<fs, built, nBuilt, last, nLoads, calls, notIndexVars>>

\* the step of a buildTree call under its mutex, and mu.Unlock()
BuilderUnlock(i) ==
    /\ BuilderMutex(procs[i].pc, procs[i].p) \in procs[i].holds
    /\ LET mutex == BuilderMutex(procs[i].pc, procs[i].p)
           after == BuilderSection(fs, procs[i])
       IN /\ fs' = after.fs
          /\ procs' = [procs EXCEPT ![i] =
                          [after.b EXCEPT !.holds = Unlock(@, mutex, after.b.pc)]]
    /\ UNCHANGED <<built, nBuilt, last, nLoads, calls, notIndexVars>>

\* mu.Lock() of the LookupChildren call
ReaderLock ==
    /\ ReaderMutex(query.pc, query.p) # NoMutex
    /\ ReaderMutex(query.pc, query.p) \notin query.holds
    /\ Free(ReaderMutex(query.pc, query.p))
    /\ query' = [query EXCEPT !.holds = @ \cup {ReaderMutex(query.pc, query.p)}]
    /\ UNCHANGED <<indexVars, stream, kdf, store, hdr>>

\* the step of the LookupChildren call under its mutex, and mu.Unlock()
ReaderUnlock ==
    /\ ReaderMutex(query.pc, query.p) \in query.holds
    /\ LET mutex == ReaderMutex(query.pc, query.p)
           after == ReaderSection(fs, query)
       IN query' = [after EXCEPT !.holds = Unlock(@, mutex, after.pc)]
    /\ UNCHANGED <<indexVars, stream, kdf, store, hdr>>

NextLocks ==
    \/ \E i \in DOMAIN procs : BuilderLock(i)
    \/ \E i \in DOMAIN procs : BuilderUnlock(i)
    \/ \E i \in DOMAIN procs : BuilderCount(i)
    \/ ReaderLock
    \/ ReaderUnlock
    \/ ReaderRange
    \/ ReaderReturn
    \/ ReaderThrow

SpecLocks == InitLocks /\ [][NextLocks]_vars

\* no call holds two mutexes, and none holds one while it waits for another
OneLockAtATime ==
    /\ \A i \in DOMAIN procs : Cardinality(procs[i].holds) <= 1
    /\ Cardinality(query.holds) <= 1

\* a buildTree call can take a step: it needs no mutex, holds the one it
\* needs, or finds it free
BuilderCanStep(i) ==
    LET mutex == BuilderMutex(procs[i].pc, procs[i].p)
    IN \/ procs[i].pc = "count"
       \/ mutex # NoMutex /\ (mutex \in procs[i].holds \/ Free(mutex))

\* the LookupChildren call can take a step
ReaderCanStep ==
    LET mutex == ReaderMutex(query.pc, query.p)
    IN \/ query.pc = "range"
       \/ mutex # NoMutex /\ (mutex \in query.holds \/ Free(mutex))

\* some call that holds mutex can take a step
HolderCanStep(mutex) ==
    \/ \E j \in DOMAIN procs : mutex \in procs[j].holds /\ BuilderCanStep(j)
    \/ mutex \in query.holds /\ ReaderCanStep

\* a call that has not returned can take a step, or waits for a mutex whose
\* holder can take one
NoCallWaitsForever ==
    /\ \A i \in DOMAIN procs :
          procs[i].pc # "done" =>
             BuilderCanStep(i) \/ HolderCanStep(BuilderMutex(procs[i].pc, procs[i].p))
    /\ query.pc \notin {"returned", "fatal"} =>
          ReaderCanStep \/ HolderCanStep(ReaderMutex(query.pc, query.p))

\* C33: no operation of the index acquires a lock while it holds another
\* one, no interleaving of buildTree calls and a LookupChildren call ends in
\* a deadlock, and every call that has started completes.
C33_NoNestedLocksAndCompletion ==
    /\ OneLockAtATime
    /\ NoCallWaitsForever
    /\ query.pc # "fatal"

-----------------------------------------------------------------------------
(* Scan called by several goroutines on one Filesystem.  The test of         *)
(* scannedDirectories is a step, the append under muScannedDirectories is    *)
(* another; the ancestors and the walk of one call are taken as one step.    *)

\* the goroutines that call Scan
NScanners == 2

\* a goroutine entering Scan(c, directory, skip)
NewScanner(directory) ==
    [directory |-> directory, pc |-> "check", walked |-> FALSE, ret |-> "none"]

InitScanners ==
    /\ InitVFS
    /\ \E d \in [1..NScanners -> ScanDirectories] :
          procs = [i \in 1..NScanners |-> NewScanner(d[i])]
    /\ stream = NoStream
    /\ kdf = NoKdf
    /\ store = NoStore
    /\ query = NoQuery
    /\ hdr = NoHdr

\* for _, scanned := range filesystem.scannedDirectories: no lock is held
ScannerCheck(i) ==
    /\ procs[i].pc = "check"
    /\ procs' = IF \E k \in DOMAIN fs.scannedDirectories :
                      fs.scannedDirectories[k] = Clean(procs[i].directory)
                THEN [procs EXCEPT ![i].pc = "done", ![i].ret = "nil"]
                ELSE [procs EXCEPT ![i].pc = "append"]
    /\ UNCHANGED <<fs, built, nBuilt, last, nLoads, calls, notIndexVars>>

\* the append, under muScannedDirectories
ScannerAppend(i) ==
    /\ procs[i].pc = "append"
    /\ fs' = [fs EXCEPT !.scannedDirectories = Append(@, Clean(procs[i].directory))]
    /\ procs' = [procs EXCEPT ![i].pc = "walk"]
    /\ UNCHANGED <<built, nBuilt, last, nLoads, calls, notIndexVars>>

\* the ancestors, then cwalk.Walk, then the return
ScannerWalk(i) ==
    /\ procs[i].pc = "walk"
    /\ LET dir == Clean(procs[i].directory)
           atoms == Split(dir)
           found == AncestorsExist(atoms, Len(atoms) - 1)
       IN \E order \in WalkOrders(dir), readlinkOk \in BOOLEAN :
             LET steps == ScanAncestors(atoms, Len(atoms) - 1)
                             \o (IF found THEN ScanWalk(dir, {}, order, readlinkOk) ELSE <<>>)
             IN /\ fs' = ScanFold(fs, steps)
                /\ built' = BuiltAfter(built, steps)
                /\ nBuilt' = NBuiltAfter(nBuilt, steps)
                /\ procs' = [procs EXCEPT ![i].pc = "done", ![i].walked = found,
                                          ![i].ret = IF found THEN "nil" ELSE "err"]
    /\ UNCHANGED <<last, nLoads, calls, notIndexVars>>

NextScanners ==
    \/ \E i \in DOMAIN procs : ScannerCheck(i)
    \/ \E i \in DOMAIN procs : ScannerAppend(i)
    \/ \E i \in DOMAIN procs : ScannerWalk(i)

SpecScanners == InitScanners /\ [][NextScanners]_vars

\* the calls of Scan for directory that went past the test
Scanning(directory) ==
    {i \in DOMAIN procs : /\ Clean(procs[i].directory) = directory
                          /\ procs[i].pc \in {"append", "walk"} \/ procs[i].ret = "err"
                                \/ procs[i].walked}

\* C34: when Scan is called for one directory several times, in sequence or
\* concurrently, the directory is appended to scannedDirectories once and
\* walked once; every other call returns nil and builds nothing.
C34_ScannedOnce ==
    \A directory \in {Clean(d) : d \in ScanDirectories} :
        /\ Cardinality({k \in DOMAIN fs.scannedDirectories :
                            fs.scannedDirectories[k] = directory}) <= 1
        /\ Cardinality(Scanning(directory)) <= 1

-----------------------------------------------------------------------------
(* The rm command.  cmd_rm lists the snapshots of the store, checks every    *)
(* argument, and only then purges.  parseSnapshotID and findSnapshotByPrefix *)
(* are called here and defined elsewhere: they are taken as the split of     *)
(* "<snapshot>:<path>" at the first colon and the snapshots that start with  *)
(* the prefix.                                                               *)

\* the arguments one call of rm is given, at most
MaxArgs == 2

\* snapshot identifiers, as the characters of their text
SnapshotIds == {<<"a", "b">>, <<"a", "c">>, <<"b", "a">>}

\* what an argument of rm may be
RmWords == {<<>>, <<"a">>, <<"a", "b">>, <<"b">>, <<"c">>, <<"a", "b", ":", "x">>}

\* prefix, pattern := parseSnapshotID(id)
parseSnapshotID(id) ==
    LET colons == {k \in 1..Len(id) : id[k] = ":"}
    IN  IF colons = {}
        THEN [prefix |-> id, pattern |-> <<>>]
        ELSE LET k == CHOOSE c \in colons : \A d \in colons : c <= d
             IN  [prefix |-> SubSeq(id, 1, k - 1),
                  pattern |-> SubSeq(id, k + 1, Len(id))]

\* findSnapshotByPrefix(snapshots, prefix): the snapshots that start with prefix
findSnapshotByPrefix(snapshots, prefix) ==
    {s \in snapshots : HasPrefix(s, prefix)}

\* the outcome of log.Fatalf: the process exits with status 1
Fatalf(message, prefix, purged) ==
    [exit |-> 1, message |-> message, prefix |-> prefix, purged |-> purged]

\* the second loop of cmd_rm, from argument i on
RECURSIVE rmPurgeLoop(_, _, _, _)
rmPurgeLoop(snapshots, args, i, purged) ==
    IF i > Len(args)
    THEN [exit |-> 0, message |-> "", prefix |-> <<>>, purged |-> purged]
    ELSE LET prefix == parseSnapshotID(args[i]).prefix
             res == findSnapshotByPrefix(snapshots, prefix)
         IN  rmPurgeLoop(snapshots, args, i + 1,
                         Append(purged, CHOOSE s \in res : TRUE))

\* the first loop of cmd_rm, from argument i on, and then the second
RECURSIVE rmCheckLoop(_, _, _)
rmCheckLoop(snapshots, args, i) ==
    IF i > Len(args)
    THEN rmPurgeLoop(snapshots, args, 1, <<>>)
    ELSE LET prefix == parseSnapshotID(args[i]).prefix
             res == findSnapshotByPrefix(snapshots, prefix)
         IN  IF Cardinality(res) = 0
             THEN Fatalf("no snapshot has prefix", prefix, <<>>)
             ELSE IF Cardinality(res) > 1
             THEN Fatalf("snapshot ID is ambigous", prefix, <<>>)
             ELSE rmCheckLoop(snapshots, args, i + 1)

\* one loop that checks an argument and purges its snapshot at once
RECURSIVE rmSingleLoop(_, _, _, _)
rmSingleLoop(snapshots, args, i, purged) ==
    IF i > Len(args)
    THEN [exit |-> 0, message |-> "", prefix |-> <<>>, purged |-> purged]
    ELSE LET prefix == parseSnapshotID(args[i]).prefix
             res == findSnapshotByPrefix(snapshots, prefix)
         IN  IF Cardinality(res) = 0
             THEN Fatalf("no snapshot has prefix", prefix, purged)
             ELSE IF Cardinality(res) > 1
             THEN Fatalf("snapshot ID is ambigous", prefix, purged)
             ELSE rmSingleLoop(snapshots, args, i + 1,
                               Append(purged, CHOOSE s \in res : TRUE))

\* rm with the check and the purge in one loop
cmd_rmSingleLoop(snapshots, args) ==
    IF Len(args) = 0
    THEN Fatalf("need at least one snapshot ID to rm", <<>>, <<>>)
    ELSE rmSingleLoop(snapshots, args, 1, <<>>)

\* cmd_rm(pstore, args), snapshots being the keys of pstore.Snapshots()
cmd_rm(snapshots, args) ==
    IF Len(args) = 0
    THEN Fatalf("need at least one snapshot ID to rm", <<>>, <<>>)
    ELSE rmCheckLoop(snapshots, args, 1)

\* the process before rm runs
NewRm(snapshots, args) ==
    [pc |-> "rm", Snapshots |-> snapshots, before |-> snapshots, args |-> args,
     exit |-> -1, message |-> "", purged |-> <<>>]

InitRm ==
    /\ fs = NewFilesystem
    /\ built = EmptyMap
    /\ nBuilt = EmptyMap
    /\ last = "new"
    /\ nLoads = 0
    /\ calls = 0
    /\ procs = <<>>
    /\ stream = NoStream
    /\ kdf = NoKdf
    /\ \E snapshots \in SUBSET SnapshotIds, args \in SeqsUpTo(RmWords, MaxArgs) :
          store = NewRm(snapshots, args)
    /\ query = NoQuery
    /\ hdr = NoHdr

\* plakar rm args...
RmCall ==
    /\ store.pc = "rm"
    /\ LET r == cmd_rm(store.Snapshots, store.args)
       IN  store' = [store EXCEPT
                        !.pc = "exit", !.exit = r.exit, !.message = r.message,
                        !.purged = r.purged,
                        !.Snapshots = @ \ {r.purged[k] : k \in DOMAIN r.purged}]
    /\ UNCHANGED <<indexVars, stream, kdf, query, hdr>>

NextRm == RmCall

SpecRm == InitRm /\ [][NextRm]_vars

\* argument i of the call names exactly one snapshot of the store
ResolvesToOne(i) ==
    Cardinality(findSnapshotByPrefix(store.before,
                                     parseSnapshotID(store.args[i]).prefix)) = 1

\* C35: rm purges nothing unless every argument resolves to exactly one
\* snapshot: when some argument, in any position, matches no snapshot or more
\* than one, the command has failed, no snapshot was purged and the store
\* still holds every snapshot it held
C35_NothingPurgedUnlessAllResolve ==
    store.pc = "exit" =>
        /\ (\E i \in DOMAIN store.args : ~ResolvesToOne(i)) =>
               /\ store.exit = 1
               /\ store.purged = <<>>
               /\ store.Snapshots = store.before
        /\ store.purged # <<>> =>
               /\ \A i \in DOMAIN store.args : ResolvesToOne(i)
               /\ Len(store.purged) = Len(store.args)

\* rm was given a good argument first and a bad one after it, and failed
C35_BadArgumentAfterGoodOne ==
    /\ store.pc = "exit"
    /\ Len(store.args) = 2
    /\ ResolvesToOne(1)
    /\ ~ResolvesToOne(2)
    /\ store.exit = 1
    /\ store.purged = <<>>

-----------------------------------------------------------------------------
(* The event processor of backup.  eventsProcessorStdio starts a goroutine   *)
(* that ranges over the channel of ctx.Events().Listen() and then sends on   *)
(* the unbuffered channel done that the function returned.  The rest of the  *)
(* program emits events, closes the listener channel and receives from done. *)

\* the events emitted during one run, at most
MaxEvents == 2

\* the capacity of the listener channel
EventsCap == 1

\* the types of events the switch tells apart, and one it does not know
EventTypes == {"PathError", "DirectoryOK", "FileOK", "Other"}

\* what the switch logs for an event
eventLog(event, quiet) ==
    IF event = "PathError" THEN <<"Warn">>
    ELSE IF event \in {"DirectoryOK", "FileOK"} /\ ~quiet THEN <<"Info">>
    ELSE <<>>

\* where the goroutine goes after the switch has handled an event and after
\* every send on done, had the send been written inside the loop
processorNextInLoop(pc, ok) ==
    IF pc = "range" THEN (IF ok THEN "switch" ELSE "send")
    ELSE IF pc = "switch" THEN "send"
    ELSE "range"

\* where the goroutine of eventsProcessorStdio goes from pc; ok tells whether
\* the range statement received an event
processorNext(pc, ok) ==
    IF pc = "range" THEN (IF ok THEN "switch" ELSE "send")
    ELSE IF pc = "switch" THEN "range"
    ELSE "exit"

\* done := eventsProcessorStdio(ctx, quiet) has returned
NewProcessor(quiet) ==
    [quiet |-> quiet, pc |-> "range", events |-> <<>>, closed |-> FALSE,
     emitted |-> <<>>, event |-> "none", handled |-> <<>>, logged |-> <<>>,
     receiving |-> FALSE, signals |-> 0, handledAtSignal |-> <<>>,
     closedAtSignal |-> FALSE, pendingAtSignal |-> <<>>]

InitEvents ==
    /\ fs = NewFilesystem
    /\ built = EmptyMap
    /\ nBuilt = EmptyMap
    /\ last = "new"
    /\ nLoads = 0
    /\ calls = 0
    /\ \E quiet \in BOOLEAN : procs = NewProcessor(quiet)
    /\ stream = NoStream
    /\ kdf = NoKdf
    /\ store = NoStore
    /\ query = NoQuery
    /\ hdr = NoHdr

\* the program emits an event: a send on the listener channel
EmitEvent ==
    /\ ~procs.closed
    /\ Len(procs.emitted) < MaxEvents
    /\ Len(procs.events) < EventsCap
    /\ \E event \in EventTypes :
          procs' = [procs EXCEPT !.events = Append(@, event),
                                 !.emitted = Append(@, event)]
    /\ UNCHANGED <<fs, built, nBuilt, last, nLoads, calls, notIndexVars>>

\* the program closes the listener channel
CloseEvents ==
    /\ ~procs.closed
    /\ procs' = [procs EXCEPT !.closed = TRUE]
    /\ UNCHANGED <<fs, built, nBuilt, last, nLoads, calls, notIndexVars>>

\* the program starts to receive from done
WaitDone ==
    /\ ~procs.receiving
    /\ procs.signals = 0
    /\ procs' = [procs EXCEPT !.receiving = TRUE]
    /\ UNCHANGED <<fs, built, nBuilt, last, nLoads, calls, notIndexVars>>

\* for event := range ctx.Events().Listen(): an event is received
RangeReceive ==
    /\ procs.pc = "range"
    /\ procs.events # <<>>
    /\ procs' = [procs EXCEPT !.pc = processorNext("range", TRUE),
                              !.event = Head(procs.events),
                              !.events = Tail(@)]
    /\ UNCHANGED <<fs, built, nBuilt, last, nLoads, calls, notIndexVars>>

\* the range ends: the channel is closed and empty
RangeEnd ==
    /\ procs.pc = "range"
    /\ procs.events = <<>>
    /\ procs.closed
    /\ procs' = [procs EXCEPT !.pc = processorNext("range", FALSE)]
    /\ UNCHANGED <<fs, built, nBuilt, last, nLoads, calls, notIndexVars>>

\* switch event := event.(type)
SwitchEvent ==
    /\ procs.pc = "switch"
    /\ procs' = [procs EXCEPT !.pc = processorNext("switch", TRUE),
                              !.handled = Append(@, procs.event),
                              !.logged = @ \o eventLog(procs.event, procs.quiet),
                              !.event = "none"]
    /\ UNCHANGED <<fs, built, nBuilt, last, nLoads, calls, notIndexVars>>

\* done <- struct{}{} meets the receive of the program
SendDone ==
    /\ procs.pc = "send"
    /\ procs.receiving
    /\ procs' = [procs EXCEPT !.pc = processorNext("send", TRUE),
                              !.signals = @ + 1,
                              !.receiving = FALSE,
                              !.handledAtSignal = procs.handled,
                              !.closedAtSignal = procs.closed,
                              !.pendingAtSignal = procs.events]
    /\ UNCHANGED <<fs, built, nBuilt, last, nLoads, calls, notIndexVars>>

NextEvents ==
    \/ EmitEvent
    \/ CloseEvents
    \/ WaitDone
    \/ RangeReceive
    \/ RangeEnd
    \/ SwitchEvent
    \/ SendDone

\* the goroutine is scheduled as long as it can run
FairProcessor ==
    /\ WF_vars(RangeReceive)
    /\ WF_vars(RangeEnd)
    /\ WF_vars(SwitchEvent)
    /\ WF_vars(SendDone)

SpecEvents == InitEvents /\ [][NextEvents]_vars /\ FairProcessor

\* done was signalled at most once; when it was, the listener channel was
\* closed and empty and every emitted event had been handled, in order; and
\* nothing was handled since
SignalledAfterAll ==
    /\ procs.signals <= 1
    /\ procs.signals = 1 =>
          /\ procs.closedAtSignal
          /\ procs.pendingAtSignal = <<>>
          /\ procs.handledAtSignal = procs.emitted
          /\ procs.handled = procs.handledAtSignal
          /\ procs.pc = "exit"

\* C36: eventsProcessorStdio signals done at most once, only after the
\* listener channel was closed and every event sent before the close was
\* handled, and handles no event after the signal; and once the channel is
\* closed and the program receives from done, the signal does come
C36_DoneOnceAfterCloseAndDrain ==
    /\ []SignalledAfterAll
    /\ (procs.closed /\ procs.receiving) ~> (procs.signals = 1)

\* done was signalled after two events were emitted and both were handled
C36_SignalledAfterBufferedEvent ==
    /\ procs.signals = 1
    /\ Len(procs.emitted) = 2
    /\ procs.handled = procs.emitted
    /\ procs.pc = "exit"

-----------------------------------------------------------------------------
(* NewFilesystemFromScan(repository, directory).  The importer is outside    *)
(* the package: NewImporter and Scan succeed or fail, and the scan channel   *)
(* delivers any sequence of messages before it is closed.  One message of    *)
(* the loop is one step.                                                     *)

\* the messages one scan delivers, at most
MaxMessages == 2

\* the nil error and the nil *Filesystem
NilError == [nil |-> "error"]
NilFilesystem == [nil |-> "Filesystem"]

\* a msg.Stat that is not a FileInfo
InvalidStat == [invalid |-> TRUE]

\* the repository given to NewFilesystemFromScan
ScanRepository == <<"/", "r">>

\* the messages of the scan channel
ScanMessages ==
    [Pathname : {<<"/">>, <<"/", "a">>, <<"/", "a", "/", "b">>, <<"/", "a", "/", "b", "/", "c">>,
                 <<"/", "r">>, <<"/", "r", "/", "x">>},
     Stat : {FileInfo(<<"d">>, 1, 1, "dir", 0), FileInfo(<<"f">>, 1, 3, "reg", 1),
             InvalidStat}]

\* the paths the ancestor loop looks up for pathname: for i from 0 below
\* len(atoms)-1, Clean("/" + Join(atoms[0:i], "/"))
ScanCheckedPaths(pathname) ==
    LET atoms == Split(pathname)
    IN  {ToSlash(Clean(<<"/">> \o Join(SubSeq(atoms, 1, i)))) : i \in 0..(Len(atoms) - 2)}

\* the proper ancestors of a clean absolute pathname
ProperAncestors(pathname) ==
    LET atoms == Split(pathname)
    IN  IF pathname = <<"/">> THEN {}
        ELSE {Clean(<<"/">> \o Join(SubSeq(atoms, 1, i))) : i \in 1..(Len(atoms) - 1)}

\* pathname == repository || strings.HasPrefix(ToSlash(pathname), ToSlash(repository)+"/")
InRepository(pathname, repository) ==
    \/ pathname = repository
    \/ HasPrefix(ToSlash(pathname), ToSlash(repository) \o <<"/">>)

\* the body of the loop over schan for one message; err is the variable err
\* of the function, which imp.Scan() assigned last
scanMessage(f, repository, msg, err) ==
    LET pathname == Clean(msg.Pathname)
    IN  IF InRepository(pathname, repository)
        THEN [returns |-> FALSE, fs |-> f]
        ELSE IF msg.Stat = InvalidStat
        THEN [returns |-> TRUE, fs |-> NilFilesystem,
              err |-> [nil |-> "no", message |-> "received invalid stat type"]]
        ELSE IF /\ pathname # <<"/">>
                /\ \E path \in ScanCheckedPaths(pathname) :
                       ~LookupInodeForDirectory(f, path).exists
        THEN [returns |-> TRUE, fs |-> NilFilesystem, err |-> err]
        ELSE [returns |-> FALSE, fs |-> buildTree(f, ToSlash(pathname), msg.Stat)]

\* the call before its first statement
NewScanCall(messages) ==
    [pc |-> "importer", op |-> "NewFilesystemFromScan", repository |-> ScanRepository,
     schan |-> messages, err |-> NilError, unindexed |-> FALSE, invalid |-> FALSE,
     ret |-> [fs |-> "none", err |-> "none"]]

InitFromScan ==
    /\ fs = NewFilesystem
    /\ built = EmptyMap
    /\ nBuilt = EmptyMap
    /\ last = "new"
    /\ nLoads = 0
    /\ calls = 0
    /\ procs = <<>>
    /\ stream = NoStream
    /\ kdf = NoKdf
    /\ store = NoStore
    /\ \E messages \in SeqsUpTo(ScanMessages, MaxMessages) : query = NewScanCall(messages)
    /\ hdr = NoHdr

\* importer.NewImporter(directory) or imp.Scan() fails: return nil, err
ImporterFails ==
    /\ query.pc = "importer"
    /\ \E message \in {"NewImporter", "Scan"} :
          query' = [query EXCEPT
                       !.pc = "returned",
                       !.ret = [fs |-> NilFilesystem,
                                err |-> [nil |-> "no", message |-> message]]]
    /\ UNCHANGED <<indexVars, stream, kdf, store, hdr>>

\* both succeed: fs := NewFilesystem(), and err is nil
ImporterScans ==
    /\ query.pc = "importer"
    /\ query' = [query EXCEPT !.pc = "range", !.err = NilError]
    /\ UNCHANGED <<indexVars, stream, kdf, store, hdr>>

\* for msg := range schan: one message
ScanMessage ==
    /\ query.pc = "range"
    /\ query.schan # <<>>
    /\ LET msg == Head(query.schan)
           pathname == Clean(msg.Pathname)
           r == scanMessage(fs, query.repository, msg, query.err)
           arrives == ~InRepository(pathname, query.repository)
       IN  /\ fs' = IF r.returns THEN fs ELSE r.fs
           /\ query' = [query EXCEPT
                 !.pc = IF r.returns THEN "returned" ELSE "range",
                 !.schan = Tail(@),
                 !.invalid = @ \/ (arrives /\ msg.Stat = InvalidStat),
                 !.unindexed = @ \/ (/\ arrives
                                     /\ \E path \in ProperAncestors(pathname) :
                                            ~LookupInodeForDirectory(fs, path).exists),
                 !.ret = IF r.returns THEN [fs |-> r.fs, err |-> r.err] ELSE @]
    /\ UNCHANGED <<built, nBuilt, last, nLoads, calls, procs, stream, kdf, store, hdr>>

\* the channel is closed and empty: return fs, nil
ScanReturns ==
    /\ query.pc = "range"
    /\ query.schan = <<>>
    /\ query' = [query EXCEPT !.pc = "returned", !.ret = [fs |-> fs, err |-> NilError]]
    /\ UNCHANGED <<indexVars, stream, kdf, store, hdr>>

NextFromScan ==
    \/ ImporterFails
    \/ ImporterScans
    \/ ScanMessage
    \/ ScanReturns

SpecFromScan == InitFromScan /\ [][NextFromScan]_vars

\* C37: NewFilesystemFromScan returns a Filesystem and a nil error, or a nil
\* Filesystem and an error that is not nil; when a path arrived with an
\* ancestor that was not indexed as a directory, or with a stat of an invalid
\* type, the error is not nil
C37_NilFilesystemXorNilError ==
    query.pc = "returned" =>
        /\ (query.ret.fs = NilFilesystem) <=> (query.ret.err # NilError)
        /\ (query.unindexed \/ query.invalid) => query.ret.err # NilError

\* what does hold: an error that is not nil comes with a nil Filesystem, and
\* a stat of an invalid type or a failure of the importer is reported so
ErrorsComeWithNilFilesystem ==
    query.pc = "returned" =>
        /\ query.ret.err # NilError => query.ret.fs = NilFilesystem
        /\ query.invalid => query.ret.err # NilError
        /\ query.ret.fs # NilFilesystem => query.ret.err = NilError

-----------------------------------------------------------------------------
(* DeriveSecret and Decrypt on inputs that are too short.  A slice           *)
(* expression whose bound exceeds the capacity of the slice, or whose lower  *)
(* bound exceeds its length, is a run-time panic: the result "panic" stands  *)
(* for the program being aborted.  The secrets are built secrets cut after   *)
(* some groups of four characters, the buffers are the results of Encrypt    *)
(* cut after some bytes.                                                     *)

\* the block size of the cipher, in bytes of the model
BlockSize == 1

\* ecb.Encrypt(dst, src) under key, for one block
EcbEncrypt(key, block) ==
    [j \in 1..Len(block) |-> [ecb |-> key, block |-> block, j |-> j]]

\* ecb.Decrypt(dst, src) under key, for one block
EcbDecrypt(key, block) ==
    IF /\ block # <<>>
       /\ \A j \in DOMAIN block : "ecb" \in DOMAIN block[j]
       /\ block = EcbEncrypt(key, block[1].block)
    THEN block[1].block
    ELSE [j \in 1..Len(block) |-> [dec |-> key, block |-> block, j |-> j]]

\* aes.NewCipher(key) returns an error for a key of a wrong size
CipherKeys == Keys \cup {"k"}
KeySizeError(key) == key \notin Keys

\* rand.Read(b) having filled n bytes with the value r
RandRead(r, n) == [j \in 1..n |-> [rand |-> r, j |-> j]]

\* Encrypt(key, buf), rand.Read having filled subkey and nonce
Encrypt(key, buf, subkey, nonce) ==
    IF KeySizeError(key) THEN [err |-> "invalid key size", out |-> <<>>]
    ELSE [err |-> "nil",
          out |-> EcbEncrypt(key, SubSeq(subkey, 1, BlockSize))
                  \o EcbEncrypt(key, SubSeq(subkey, BlockSize + 1, 2 * BlockSize))
                  \o nonce \o Seal(subkey, nonce, buf)]

\* Decrypt(key, buf).  buf[:n] with n above len(buf) is within the capacity
\* or not, but buf[n:] in the same statement panics in both cases
Decrypt(key, buf) ==
    IF KeySizeError(key) THEN [err |-> "invalid key size", cleartext |-> <<>>]
    ELSE IF Len(buf) < 2 * BlockSize THEN [err |-> "panic", cleartext |-> <<>>]
    ELSE LET encsubkey == SubSeq(buf, 1, 2 * BlockSize)
             ciphertext == SubSeq(buf, 2 * BlockSize + 1, Len(buf))
             subkey == EcbDecrypt(key, SubSeq(encsubkey, 1, BlockSize))
                       \o EcbDecrypt(key, SubSeq(encsubkey, BlockSize + 1, 2 * BlockSize))
         IN  IF Len(ciphertext) < NonceSize THEN [err |-> "panic", cleartext |-> <<>>]
             ELSE LET nonce == SubSeq(ciphertext, 1, NonceSize)
                      r == Open(subkey, nonce,
                                SubSeq(ciphertext, NonceSize + 1, Len(ciphertext)))
                  IN  IF r.err
                      THEN [err |-> "message authentication failed", cleartext |-> <<>>]
                      ELSE [err |-> "nil", cleartext |-> r.plaintext]

\* the numbers of base64 groups a stored secret is cut to: 16 is all of it
SecretGroups == {0, 1, 5, 6, 16}

\* the prefixes of a sequence
Prefixes(s) == {SubSeq(s, 1, n) : n \in 0..Len(s)}

\* the calls: DeriveSecret on a cut secret, Decrypt on a cut buffer
ShortCalls ==
    {[pc |-> "call", op |-> "DeriveSecret", passphrase |-> passphrase, key |-> "",
      input |-> SubSeq(BuildSecretFromPassphrase(passphrase, salt), 1, 4 * g),
      whole |-> g = 16, result |-> [err |-> "none"]] :
        passphrase \in {<<>>, <<1>>}, salt \in Salts, g \in SecretGroups}
    \cup
    UNION {{[pc |-> "call", op |-> "Decrypt", passphrase |-> <<>>, key |-> decKey,
             input |-> buf,
             whole |-> buf = Encrypt(key, plain, RandRead("s", 2 * BlockSize),
                                     RandRead("n", NonceSize)).out /\ decKey = key,
             result |-> [err |-> "none"]] :
               buf \in Prefixes(Encrypt(key, plain, RandRead("s", 2 * BlockSize),
                                        RandRead("n", NonceSize)).out)} :
           key \in Keys, decKey \in CipherKeys, plain \in SeqsUpTo({0, 1}, 2)}

InitShort ==
    /\ InitVFS
    /\ procs = <<>>
    /\ stream = NoStream
    /\ kdf \in ShortCalls
    /\ store = NoStore
    /\ query = NoQuery
    /\ hdr = NoHdr

\* DeriveSecret(passphrase, secret)
DeriveStoredSecretCall ==
    /\ kdf.pc = "call"
    /\ kdf.op = "DeriveSecret"
    /\ kdf' = [kdf EXCEPT !.pc = "returned",
                          !.result = [err |-> DeriveSecret(kdf.passphrase, kdf.input).err]]
    /\ UNCHANGED <<indexVars, stream, store, query, hdr>>

\* Decrypt(key, buf)
DecryptCall ==
    /\ kdf.pc = "call"
    /\ kdf.op = "Decrypt"
    /\ kdf' = [kdf EXCEPT !.pc = "returned",
                          !.result = [err |-> Decrypt(kdf.key, kdf.input).err]]
    /\ UNCHANGED <<indexVars, stream, store, query, hdr>>

NextShort ==
    \/ DeriveStoredSecretCall
    \/ DecryptCall

SpecShort == InitShort /\ [][NextShort]_vars

\* C38: DeriveSecret and Decrypt return, with an error when the stored secret
\* decodes to fewer bytes than the salt or the ciphertext is shorter than the
\* encrypted subkey and the nonce; no input aborts the program
C38_ShortInputsAreErrors ==
    kdf.pc = "returned" => kdf.result.err # "panic"

\* what does hold: the whole secret and the whole buffer give no error with
\* the right passphrase and key, and every cut input gives an error or a panic
WholeInputsSucceed ==
    kdf.pc = "returned" => (kdf.whole <=> kdf.result.err = "nil")

-----------------------------------------------------------------------------
(* The PathList screen.  The effect runs after the first render and after    *)
(* every render in which one of its dependencies changed: the search         *)
(* parameters of the URL, pageOffset or pageSize.  A state setter given a    *)
(* value that Object.is finds equal to the state causes no render.  Numbers  *)
(* are records, so that NaN is a value; strings are sequences of characters; *)
(* searchParams.get gives null for a parameter that is missing.              *)

\* the page changes made with the pagination control, at most
MaxPageChanges == 2

\* the number NaN, and the other numbers
NaN == [nan |-> TRUE, n |-> 0]
Number(n) == [nan |-> FALSE, n |-> n]

\* null, and a string
Null == [null |-> TRUE, s |-> <<>>]
String(s) == [null |-> FALSE, s |-> s]

\* the decimal digits
DigitChars == <<"0", "1", "2", "3", "4", "5", "6", "7", "8", "9">>
IsDigit(c) == \E d \in DOMAIN DigitChars : DigitChars[d] = c
DigitValue(c) == (CHOOSE d \in DOMAIN DigitChars : DigitChars[d] = c) - 1

\* Number.prototype.toString, of NaN and of a natural number
RECURSIVE DecimalDigits(_)
DecimalDigits(n) ==
    IF n < 10 THEN <<DigitChars[n + 1]>>
    ELSE Append(DecimalDigits(n \div 10), DigitChars[(n % 10) + 1])

toString(x) == IF x.nan THEN String(<<"N", "a", "N">>) ELSE String(DecimalDigits(x.n))

\* parseInt(v): the leading decimal digits of String(v), NaN when there is none
RECURSIVE ParseDigits(_, _)
ParseDigits(s, acc) ==
    IF s = <<>> \/ ~IsDigit(Head(s)) THEN acc
    ELSE ParseDigits(Tail(s), 10 * acc + DigitValue(Head(s)))

parseInt(v) ==
    IF v.null \/ v.s = <<>> \/ ~IsDigit(Head(v.s)) THEN NaN
    ELSE Number(ParseDigits(v.s, 0))

\* the values of the page and pageSize parameters of the URLs
PageParams == {Null, String(<<"1">>), String(<<"2">>), String(<<"0", "2">>), String(<<"x">>)}
PageSizeParams == {Null, String(<<"1", "0">>), String(<<"2", "0">>)}

\* the pages of the pagination control
ControlPages == {1, 2, 3}

\* the body of the effect on the state st: the state after it, and whether
\* fetchPath was dispatched
effect(st) ==
    IF st.searchParams.page # toString(st.pageOffset)
    THEN [st EXCEPT !.pageOffset = parseInt(st.searchParams.page)]
    ELSE IF st.searchParams.pageSize # toString(st.pageSize)
    THEN [st EXCEPT !.pageSize = parseInt(st.searchParams.pageSize)]
    ELSE [st EXCEPT !.dispatched =
              Append(@, [pageOffset |-> st.pageOffset, pageSize |-> st.pageSize,
                         searchParams |-> st.searchParams, change |-> st.changes])]

\* PathList after its first render: useState(1), useState(10), effect to run
NewPathList(page, pageSize) ==
    [pc |-> "PathList", searchParams |-> [page |-> page, pageSize |-> pageSize],
     pageOffset |-> Number(1), pageSize |-> Number(10),
     effectPending |-> TRUE, runs |-> 0, changes |-> 0, dispatched |-> <<>>]

InitPathList ==
    /\ InitVFS
    /\ procs = <<>>
    /\ stream = NoStream
    /\ kdf = NoKdf
    /\ store = NoStore
    /\ \E page \in PageParams, pageSize \in PageSizeParams :
          query = NewPathList(page, pageSize)
    /\ hdr = NoHdr

\* React runs the effect; a setter that changed the state renders again and
\* makes the effect run again
RunEffect ==
    /\ query.effectPending
    /\ LET st == effect(query)
       IN  query' = [st EXCEPT
                        !.runs = @ + 1,
                        !.effectPending = (st.pageOffset # query.pageOffset
                                           \/ st.pageSize # query.pageSize)]
    /\ UNCHANGED <<indexVars, stream, kdf, store, hdr>>

\* handlePageChange(event, page), between two runs of the effect
HandlePageChange ==
    /\ ~query.effectPending
    /\ query.changes < MaxPageChanges
    /\ \E page \in ControlPages :
          query' = [query EXCEPT
                       !.pageOffset = Number(page),
                       !.searchParams = [page |-> toString(Number(page)),
                                         pageSize |-> toString(query.pageSize)],
                       !.changes = @ + 1,
                       !.runs = 0,
                       !.effectPending = TRUE]
    /\ UNCHANGED <<indexVars, stream, kdf, store, hdr>>

NextPathList ==
    \/ RunEffect
    \/ HandlePageChange

\* React runs a pending effect
SpecPathList == InitPathList /\ [][NextPathList]_vars /\ WF_vars(RunEffect)

\* fetchPath was dispatched since the URL became the one the screen shows
Fetched ==
    \E k \in DOMAIN query.dispatched :
        /\ query.dispatched[k].change = query.changes
        /\ query.dispatched[k].searchParams = query.searchParams

\* every dispatch was made with the state equal to the parameters of the URL
DispatchedOnlyWhenEqual ==
    \A k \in DOMAIN query.dispatched :
        LET d == query.dispatched[k]
        IN  /\ d.searchParams.page = toString(d.pageOffset)
            /\ d.searchParams.pageSize = toString(d.pageSize)

\* C39: for every URL, with or without the page and pageSize parameters,
\* the effect comes to dispatch fetchPath: when no run of the effect is
\* pending it has dispatched for the URL shown; it dispatches only when
\* pageOffset and pageSize equal the parameters; and its state updates end
\* (at most one for each of the two states, then the dispatch)
C39_EffectFetchesForEveryUrl ==
    /\ ~query.effectPending => Fetched
    /\ DispatchedOnlyWhenEqual
    /\ query.runs <= 3

\* what does hold: no dispatch is made with a state that differs from the
\* URL, the runs of the effect end, and a URL whose two parameters are the
\* decimal forms of numbers is fetched
EffectFetchesCanonicalUrls ==
    /\ DispatchedOnlyWhenEqual
    /\ query.runs <= 3
    /\ (/\ ~query.effectPending
        /\ query.searchParams.page = toString(parseInt(query.searchParams.page))
        /\ query.searchParams.pageSize = toString(parseInt(query.searchParams.pageSize)))
       => Fetched

-----------------------------------------------------------------------------
(* addPathname called on its own, with the value it returns.                 *)

\* the call addPathname(pathname) on f, with what it returned
NewIntern(f, pathname) ==
    [pc |-> "returned", op |-> "addPathname", pathname |-> pathname,
     ret |-> addPathnameResult(f, pathname),
     first |-> pathname \notin DOMAIN f.Pathnames,
     before |-> [Pathnames |-> f.Pathnames, pathnamesInverse |-> f.pathnamesInverse,
                 pathnameID |-> f.pathnameID]]

InitIntern ==
    /\ InitVFS
    /\ procs = <<>>
    /\ stream = NoStream
    /\ kdf = NoKdf
    /\ store = NoStore
    /\ query = NoQuery
    /\ hdr = NoHdr

\* id := filesystem.addPathname(pathname)
InternCall ==
    /\ calls < MaxCalls
    /\ \E pathname \in BuildPaths :
          /\ fs' = addPathname(fs, pathname)
          /\ query' = NewIntern(fs, pathname)
    /\ last' = "addPathname"
    /\ calls' = calls + 1
    /\ UNCHANGED <<built, nBuilt, nLoads, procs, stream, kdf, store, hdr>>

NextIntern == InternCall

SpecIntern == InitIntern /\ [][NextIntern]_vars

\* the ids are 0, 1, 2, ... and the two maps are inverse to each other
IdsInOrder ==
    /\ {fs.Pathnames[p] : p \in DOMAIN fs.Pathnames} = 0..(fs.pathnameID - 1)
    /\ DOMAIN fs.pathnamesInverse = 0..(fs.pathnameID - 1)
    /\ \A p \in DOMAIN fs.Pathnames : fs.pathnamesInverse[fs.Pathnames[p]] = p

\* the last call gave its pathname the next id when it was new, and changed
\* neither map nor the next id when it was not
InternedOnce ==
    query.pc = "returned" =>
        IF query.first
        THEN /\ fs.Pathnames[query.pathname] = query.before.pathnameID
             /\ fs.pathnameID = query.before.pathnameID + 1
             /\ \A p \in DOMAIN query.before.Pathnames :
                    fs.Pathnames[p] = query.before.Pathnames[p]
        ELSE /\ fs.Pathnames = query.before.Pathnames
             /\ fs.pathnamesInverse = query.before.pathnamesInverse
             /\ fs.pathnameID = query.before.pathnameID

\* C40: addPathname(p) returns the id under which p is interned, on the first
\* insertion of p and on every later call; the ids are handed out as 0, 1,
\* 2, ... in the order of the first insertions, and a repeated call changes
\* neither map nor the next id
C40_ReturnsInternedId ==
    /\ query.pc = "returned" => query.ret = fs.Pathnames[query.pathname]
    /\ IdsInOrder
    /\ InternedOnce

\* what does hold: the ids and the maps are as the claim says, and a call on
\* a pathname that was interned before returns its id
LaterCallsReturnInternedId ==
    /\ IdsInOrder
    /\ InternedOnce
    /\ (query.pc = "returned" /\ ~query.first) =>
           query.ret = fs.Pathnames[query.pathname]

=============================================================================
